---- MODULE Spec2Model ----
(***************************************************************************)
(* A model of the two stateful subsystems of the repository:               *)
(*   - the chat turn of app/routers/chat_router.py (session and thread     *)
(*     resolution, message persistence, the event generator that strips    *)
(*     in-band markers, the provider adapters it streams from), and        *)
(*   - the Acts import job of app/services/import_scheduler.py.            *)
(* Text is modelled as a sequence of tokens; a sentinel is one token.      *)
(***************************************************************************)
EXTENDS Integers, Sequences, FiniteSets, TLC

VARIABLES
    users,          \* rows of table users: [id, email, name]
    sessions,       \* rows of chat_sessions: [id, user_id]
    threads,        \* rows of chat_threads: [id, session_id, title]
    messages,       \* rows of chat_messages in insert order: [thread_id, role, content]
    cache,          \* recent-history cache: key <<session id, thread id>> -> list
    pc,             \* position of the chat request in flight
    req,            \* the ChatRequest in flight
    cur,            \* its resolved records: [user, session, thread, bot_id, strategy]
    http_status,    \* status of the HTTP response (0: not yet decided)
    events,         \* the events sent on the response stream so far
    gen,            \* locals of event_generator: [full_content, choices_data, acts_data]
    stream,         \* the adapter's generator: [pending, raises, called, upstream]
    trace,          \* what the turn in flight has done, in order
    n_turns,        \* chat requests accepted so far
    job,            \* run_import_job invocations: runner -> locals
    imports_folder, \* files in app/imports
    archived,       \* files moved to processed/ or failed/: [name, to]
    acts_table,     \* rows of table acts in insert order
    status_calls,   \* statuses handed to _update_job_status, in order
    redis_kv,       \* the key-value store: key -> value
    n_runs,         \* import runs started so far
    scheduler,      \* the BackgroundScheduler: [running, jobs]
    monthly_updates,\* rows of table monthly_updates in insert order
    response,       \* what the last call of a read or write endpoint returned
    pushers         \* RedisService.rpush calls on one key: [pc, n, untrimmed]

chat_vars == <<users, sessions, threads, messages, cache, pc, req, cur,
               http_status, events, gen, stream, trace, n_turns>>
import_vars == <<job, imports_folder, archived, acts_table, status_calls,
                 redis_kv, n_runs>>
admin_vars == <<scheduler, monthly_updates, response, pushers>>
vars == <<chat_vars, import_vars, admin_vars>>

-----------------------------------------------------------------------------
(* Bounds of the model *)

MaxTurns == 3       \* chat requests per behaviour
MaxSegments == 2    \* segments (plain text, marker spans) per chunk of marked text
MaxFaultTurns == 2  \* chat requests per behaviour when failures are injected
MaxRuns == 2        \* import runs per behaviour
MaxPending == 2     \* jobs queued in a scheduler that did not start
MaxActs == 3        \* rows of table acts stored by direct repository calls
MaxSheetRows == 2   \* rows of an uploaded monthly-updates sheet
MaxBlockRows == 5   \* rows of an acts sheet with merged blocks
MaxUpdates == 4     \* rows of table monthly_updates
MaxPushes == 52     \* entries appended to one chat_history key

(* Program constants *)

REDIS_CHAT_HISTORY_MAX_LEN == 50

NONE == "<none>"    \* Python's None for a string-valued field

-----------------------------------------------------------------------------
(* Text: tokens, sentinels, JSON documents *)

CHOICES == "__CHOICES__"
END_CHOICES == "__END_CHOICES__"
ACTS_DATA == "__ACTS_DATA__"
END_ACTS == "__END_ACTS__"
DAILY_UPDATES == "__DAILY_UPDATES__"
END_DAILY == "__END_DAILY__"
SWITCH_PROVIDER == "__SWITCH_PROVIDER__"
END_SWITCH == "__END_SWITCH__"
NEXT_MESSAGE == "__NEXT_MESSAGE__"

Sentinels == {CHOICES, END_CHOICES, ACTS_DATA, END_ACTS, DAILY_UPDATES, END_DAILY,
              SWITCH_PROVIDER, END_SWITCH, NEXT_MESSAGE}

\* "X in chunk"
Contains(chunk, tok) == \E i \in 1..Len(chunk) : chunk[i] = tok

\* chunk.index(X): position of the first occurrence (the caller checks Contains)
Index(chunk, tok) ==
    CHOOSE i \in 1..Len(chunk) : chunk[i] = tok /\ \A j \in 1..(i - 1) : chunk[j] # tok

\* chunk[:n] for a 0-based end n, as tokens 1..n
Upto(chunk, n) == SubSeq(chunk, 1, n)

\* Python values a JSON document parses to; "None" is Python's None
PyNone == "None"
JsonDocs == {"[]", "[c1]", "{}", "{u1}"}

\* json.loads on one document
JsonValue(doc) ==
    CASE doc = "[]" -> "list()"
      [] doc = "[c1]" -> "list(c1)"
      [] doc = "{}" -> "dict()"
      [] doc = "{u1}" -> "dict(u1)"

\* json.dumps, the inverse on the values above
json_dumps(value) ==
    CASE value = "list()" -> "[]"
      [] value = "list(c1)" -> "[c1]"
      [] value = "dict()" -> "{}"
      [] value = "dict(u1)" -> "{u1}"

\* json.loads(text): text parses iff it is exactly one document
JsonOk(text) == Len(text) = 1 /\ text[1] \in JsonDocs
json_loads(text) == JsonValue(text[1])

\* Python truthiness of a parsed value ("if choices_data:")
Truthy(value) == value \in {"list(c1)", "dict(u1)"}

-----------------------------------------------------------------------------
(* event_generator: marker extraction on one chunk *)

ABSENT == "<absent>"    \* a key that is not in the event's JSON object

\* chunk[start:end] between a begin sentinel and its end sentinel
Between(chunk, begin, end) == SubSeq(chunk, Index(chunk, begin) + 1, Index(chunk, end) - 1)

\* ExtractChoices that removes the span only and keeps the text after it
ExtractChoicesSpanOnly(chunk, choices_data) ==
    IF Contains(chunk, CHOICES) /\ Contains(chunk, END_CHOICES)
         /\ JsonOk(Between(chunk, CHOICES, END_CHOICES))
    THEN [chunk |-> Upto(chunk, Index(chunk, CHOICES) - 1)
                      \o SubSeq(chunk, Index(chunk, END_CHOICES) + 1, Len(chunk)),
          data |-> json_loads(Between(chunk, CHOICES, END_CHOICES))]
    ELSE [chunk |-> chunk, data |-> choices_data]

\* the __CHOICES__ block: the chunk is cut only inside the try, after json.loads
ExtractChoices(chunk, choices_data) ==
    IF Contains(chunk, CHOICES) /\ Contains(chunk, END_CHOICES)
         /\ JsonOk(Between(chunk, CHOICES, END_CHOICES))
    THEN [chunk |-> Upto(chunk, Index(chunk, CHOICES) - 1),
          data |-> json_loads(Between(chunk, CHOICES, END_CHOICES))]
    ELSE [chunk |-> chunk, data |-> choices_data]

\* the __ACTS_DATA__ block
ExtractActs(chunk, acts_data) ==
    IF Contains(chunk, ACTS_DATA) /\ Contains(chunk, END_ACTS)
         /\ JsonOk(Between(chunk, ACTS_DATA, END_ACTS))
    THEN [chunk |-> Upto(chunk, Index(chunk, ACTS_DATA) - 1),
          data |-> json_loads(Between(chunk, ACTS_DATA, END_ACTS))]
    ELSE [chunk |-> chunk, data |-> acts_data]

\* the __DAILY_UPDATES__ block: daily_updates_data is reset for every chunk
ExtractDaily(chunk) ==
    IF Contains(chunk, DAILY_UPDATES) /\ Contains(chunk, END_DAILY)
         /\ JsonOk(Between(chunk, DAILY_UPDATES, END_DAILY))
    THEN [chunk |-> Upto(chunk, Index(chunk, DAILY_UPDATES) - 1),
          data |-> json_loads(Between(chunk, DAILY_UPDATES, END_DAILY))]
    ELSE [chunk |-> chunk, data |-> PyNone]

\* the __SWITCH_PROVIDER__ block: no payload is parsed
StripSwitch(chunk) ==
    IF Contains(chunk, SWITCH_PROVIDER) /\ Contains(chunk, END_SWITCH)
    THEN Upto(chunk, Index(chunk, SWITCH_PROVIDER) - 1)
    ELSE chunk

\* the body of the async-for loop up to "full_content += chunk"
ProcessChunk(chunk, g) ==
    LET c1 == ExtractChoices(chunk, g.choices_data)
        c2 == ExtractActs(c1.chunk, g.acts_data)
        c3 == ExtractDaily(c2.chunk)
    IN  [chunk |-> StripSwitch(c3.chunk),
         choices_data |-> c1.data,
         acts_data |-> c2.data,
         daily_updates_data |-> c3.data]

\* sse_data: a side payload is attached only when it is truthy
SseData(p) ==
    [kind |-> "data",
     response |-> p.chunk,
     choices |-> IF Truthy(p.choices_data) THEN p.choices_data ELSE ABSENT,
     acts |-> IF Truthy(p.acts_data) THEN p.acts_data ELSE ABSENT,
     dailyUpdates |-> IF Truthy(p.daily_updates_data) THEN p.daily_updates_data ELSE ABSENT]

\* the event of the except branch: {'error': str(e)}
ErrorEvent ==
    [kind |-> "error", response |-> <<>>, choices |-> ABSENT, acts |-> ABSENT,
     dailyUpdates |-> ABSENT]

-----------------------------------------------------------------------------
(* chat_endpoint: authentication *)

\* rows of table widget_config
WidgetConfigs ==
    {[tenant_id |-> "t1", secret_key |-> "w_active", active |-> TRUE, bot_id |-> "bot1"],
     [tenant_id |-> "t2", secret_key |-> "w_inactive", active |-> FALSE, bot_id |-> "bot2"]}

\* settings.security.api_keys
SystemKeys == {[key |-> "sys_key", enabled |-> TRUE], [key |-> "sys_off", enabled |-> FALSE]}

NoConfig == [tenant_id |-> NONE, secret_key |-> NONE, active |-> FALSE, bot_id |-> NONE]

\* WidgetConfigRepository.get_by_secret_key: the active row with that key, or None
get_by_secret_key(secret_key) ==
    IF \E w \in WidgetConfigs : w.secret_key = secret_key /\ w.active
    THEN CHOOSE w \in WidgetConfigs : w.secret_key = secret_key /\ w.active
    ELSE NoConfig

\* is_valid of chat_endpoint
IsValidKey(x_api_key) ==
    LET widget_config == get_by_secret_key(x_api_key)
    IN  \/ (widget_config # NoConfig /\ widget_config.active)
        \/ \E k \in SystemKeys : k.key = x_api_key /\ k.enabled

\* "Resolve Bot ID" at the top of the try block
InitialBotId(x_api_key) ==
    LET widget_config == get_by_secret_key(x_api_key)
    IN  IF widget_config # NoConfig /\ widget_config.bot_id # NONE
        THEN widget_config.bot_id ELSE NONE

\* "Resolve Bot ID if available": the config looked up by request.app_id
ConfigByAppId(app_id) ==
    IF \E w \in WidgetConfigs : w.tenant_id = app_id
    THEN CHOOSE w \in WidgetConfigs : w.tenant_id = app_id
    ELSE IF \E w \in WidgetConfigs : w.secret_key = app_id
         THEN CHOOSE w \in WidgetConfigs : w.secret_key = app_id
         ELSE NoConfig

ResolveBotId(bot_id, app_id) ==
    IF app_id # NONE /\ ConfigByAppId(app_id) # NoConfig
         /\ ConfigByAppId(app_id).bot_id # NONE
    THEN ConfigByAppId(app_id).bot_id
    ELSE bot_id

-----------------------------------------------------------------------------
(* chat_endpoint: user, session and thread resolution *)

\* the decimal strings a handle may be, by value
DigitStr == <<"1", "2", "3", "4", "5", "6", "7", "8", "9">>

\* str.isdigit() and int() on a handle
IsDigit(h) == \E n \in 1..Len(DigitStr) : DigitStr[n] = h
ToInt(h) == CHOOSE n \in 1..Len(DigitStr) : DigitStr[n] = h

\* str(id)
ToStr(n) == DigitStr[n]

\* str.lower() on the strings of the model
Lower(s) ==
    CASE s = "NEW" -> "new"
      [] s = "BotPress" -> "botpress"
      [] s = "OpenAI" -> "openai"
      [] OTHER -> s

\* email.split("@")[0]
LocalPart(email) ==
    CASE email = "a@x" -> "a"
      [] email = "b@x" -> "b"
      [] OTHER -> email

\* the next value of an autoincrement id
NextId(rows) == Cardinality(rows) + 1

NoRow == 0    \* None for a row reference

\* db.query(User).filter(User.email == email).first()
UserByEmail(email) ==
    IF \E u \in users : u.email = email
    THEN (CHOOSE u \in users : u.email = email).id
    ELSE NoRow

\* FindSession without the filter on ChatSession.user_id
FindSessionAnyUser(session_id, user_id) ==
    IF session_id # NONE /\ Lower(session_id) # "new" /\ IsDigit(session_id)
         /\ \E s \in sessions : s.id = ToInt(session_id)
    THEN ToInt(session_id)
    ELSE NoRow

\* the session lookup of "2. Upsert Session"
FindSession(session_id, user_id) ==
    IF session_id # NONE /\ Lower(session_id) # "new" /\ IsDigit(session_id)
         /\ \E s \in sessions : s.id = ToInt(session_id) /\ s.user_id = user_id
    THEN ToInt(session_id)
    ELSE NoRow

\* FindThread without the test of request.is_new_chat
FindThreadIgnoringFlag(thread_id, is_new_chat, session, th) ==
    IF thread_id # NONE /\ Lower(thread_id) # "new" /\ IsDigit(thread_id)
         /\ \E t \in th : t.id = ToInt(thread_id) /\ t.session_id = session
    THEN ToInt(thread_id)
    ELSE NoRow

\* the thread lookup of "3. Upsert Thread" in the threads table th
FindThread(thread_id, is_new_chat, session, th) ==
    IF thread_id # NONE /\ Lower(thread_id) # "new" /\ ~is_new_chat /\ IsDigit(thread_id)
         /\ \E t \in th : t.id = ToInt(thread_id) /\ t.session_id = session
    THEN ToInt(thread_id)
    ELSE NoRow

\* the rows of msgs that belong to a thread, in insert order
MessagesIn(msgs, thread) == SelectSeq(msgs, LAMBDA m : m.thread_id = thread)

\* thread.messages: the message list of a thread
MessagesOf(thread) == MessagesIn(messages, thread)

\* session.threads
ThreadsOf(session) == {t \in threads : t.session_id = session}

NoReq ==
    [email |-> NONE, session_id |-> NONE, thread_id |-> NONE, is_new_chat |-> FALSE,
     provider |-> NONE, app_id |-> NONE, message |-> <<>>, x_api_key |-> NONE]

NoCur ==
    [user |-> NoRow, session |-> NoRow, thread |-> NoRow, bot_id |-> NONE,
     strategy |-> NONE, new_session |-> FALSE, new_thread |-> FALSE]

NoGen == [full_content |-> <<>>, choices_data |-> PyNone, acts_data |-> PyNone]

NoStream == [pending |-> <<>>, raises |-> FALSE, called |-> FALSE, upstream |-> NONE]

\* chat_endpoint up to the commit of the user message (no await in between)
chat_endpoint(r) ==
    /\ pc \in {"idle", "done"}
    /\ n_turns < MaxTurns
    /\ n_turns' = n_turns + 1
    /\ req' = r
    /\ events' = <<>>
    /\ gen' = NoGen
    /\ stream' = NoStream
    /\ IF r.x_api_key = NONE \/ ~IsValidKey(r.x_api_key)
       THEN /\ http_status' = 401
            /\ pc' = "done"
            /\ cur' = NoCur
            /\ trace' = <<>>
            /\ UNCHANGED <<users, sessions, threads, messages>>
       ELSE LET user == IF UserByEmail(r.email) # NoRow
                        THEN UserByEmail(r.email) ELSE NextId(users)
                users1 == IF UserByEmail(r.email) # NoRow THEN users
                          ELSE users \cup {[id |-> user, email |-> r.email,
                                            name |-> LocalPart(r.email)]}
                found_s == FindSession(r.session_id, user)
                session == IF found_s # NoRow THEN found_s ELSE NextId(sessions)
                sessions1 == IF found_s # NoRow THEN sessions
                             ELSE sessions \cup {[id |-> session, user_id |-> user]}
                found_t == FindThread(r.thread_id, r.is_new_chat, session, threads)
                thread == IF found_t # NoRow THEN found_t ELSE NextId(threads)
                threads1 == IF found_t # NoRow THEN threads
                            ELSE threads \cup
                                   {[id |-> thread, session_id |-> session,
                                     title |-> Cardinality(ThreadsOf(session)) + 1]}
            IN  /\ users' = users1
                /\ sessions' = sessions1
                /\ threads' = threads1
                /\ messages' = Append(messages, [thread_id |-> thread, role |-> "user",
                                                 content |-> r.message])
                /\ cur' = [user |-> user, session |-> session, thread |-> thread,
                           bot_id |-> InitialBotId(r.x_api_key), strategy |-> NONE,
                           new_session |-> (found_s = NoRow),
                           new_thread |-> (found_t = NoRow)]
                /\ http_status' = 0
                /\ trace' = <<"commit_user">>
                /\ pc' = "cache_user"
    /\ UNCHANGED <<cache, import_vars, admin_vars>>

-----------------------------------------------------------------------------
(* The recent-history cache *)

\* RPUSH followed by LTRIM key -max_len -1
rpush_list(list, value, max_len) ==
    LET l == Append(list, value)
    IN  IF Len(l) > max_len THEN SubSeq(l, Len(l) - max_len + 1, Len(l)) ELSE l

\* redis_key of the turn: chat_history:{session.id}:{thread.id}
RedisKey == <<cur.session, cur.thread>>

CacheList(key) == IF key \in DOMAIN cache THEN cache[key] ELSE <<>>

\* RedisService.rpush; a failure of the cache is logged and swallowed
rpush(key, value, ok) ==
    IF ok
    THEN cache' = [k \in DOMAIN cache \cup {key} |->
                     IF k = key
                     THEN rpush_list(CacheList(key), value, REDIS_CHAT_HISTORY_MAX_LEN)
                     ELSE cache[k]]
    ELSE cache' = cache

\* "Cache User Message to Redis"
cache_user_message(ok) ==
    /\ pc = "cache_user"
    /\ rpush(RedisKey, [role |-> "user", content |-> req.message], ok)
    /\ trace' = IF ok THEN Append(trace, "cache_user") ELSE trace
    /\ pc' = "select"
    /\ UNCHANGED <<users, sessions, threads, messages, req, cur, http_status, events,
                   gen, stream, n_turns, import_vars, admin_vars>>

-----------------------------------------------------------------------------
(* Provider selection and bot routing *)

\* get_strategy with the bot platform as the default of an unknown provider
get_strategy_default(provider) ==
    IF provider = NONE THEN "AttributeError"
    ELSE IF Lower(provider) = "ollama" THEN "ollama"
    ELSE IF Lower(provider) = "openai" THEN "openai"
    ELSE "botpress"

\* ChatFactory.get_strategy: the adapter, or the exception it ends with
get_strategy(provider) ==
    IF provider = NONE THEN "AttributeError"
    ELSE IF Lower(provider) = "botpress" THEN "botpress"
    ELSE IF Lower(provider) = "ollama" THEN "ollama"
    ELSE IF Lower(provider) = "openai" THEN "openai"
    ELSE "ValueError"

Strategies == {"botpress", "ollama", "openai"}

\* "5. Get appropriate strategy" up to the return of the StreamingResponse, with
\* the except clauses of chat_endpoint; db_ok: the widget_config queries succeed
select_strategy(db_ok) ==
    /\ pc = "select"
    /\ LET strategy == get_strategy(req.provider)
       IN  IF strategy = "ValueError"
           THEN /\ http_status' = 400
                /\ pc' = "done"
                /\ cur' = cur
                /\ trace' = Append(trace, "raise_select")
           ELSE IF strategy = "AttributeError" \/ (req.app_id # NONE /\ ~db_ok)
           THEN /\ http_status' = 500
                /\ pc' = "done"
                /\ cur' = cur
                /\ trace' = Append(trace, "raise_select")
           ELSE /\ http_status' = 200
                /\ pc' = "gen_start"
                /\ cur' = [cur EXCEPT !.strategy = strategy,
                                      !.bot_id = ResolveBotId(cur.bot_id, req.app_id)]
                /\ trace' = trace
    /\ UNCHANGED <<users, sessions, threads, messages, cache, req, events, gen, stream,
                   n_turns, import_vars, admin_vars>>

-----------------------------------------------------------------------------
(* The provider adapters: what stream_message yields for an upstream response *)

NL == "\\n"
ErrorText == "Error:"

\* the chunks of one text response: text.split("\n"), "\n" before every line but the first
LineChunks(text) == [i \in 1..Len(text) |-> IF i = 1 THEN text[i] ELSE <<NL>> \o text[i]]

RECURSIVE TextChunks(_, _)
\* "Stream each text response separately with separators"
TextChunks(text_responses, idx) ==
    IF idx > Len(text_responses) THEN <<>>
    ELSE LineChunks(text_responses[idx])
         \o (IF idx < Len(text_responses) THEN << <<NL, NEXT_MESSAGE>> >> ELSE <<>>)
         \o TextChunks(text_responses, idx + 1)

\* BotpressService.stream_message after a 2xx response with a JSON body
BotpressChunks(reply) ==
    (IF reply.text_responses = <<>> THEN << <<"No response from bot">> >>
     ELSE TextChunks(reply.text_responses, 1))
    \o (IF Truthy(reply.acts_data)
        THEN << <<NL, ACTS_DATA, json_dumps(reply.acts_data), END_ACTS>> >> ELSE <<>>)
    \o (IF Truthy(reply.daily_updates_data)
        THEN << <<NL, DAILY_UPDATES, json_dumps(reply.daily_updates_data), END_DAILY>> >>
        ELSE <<>>)
    \o (IF Truthy(reply.all_choices)
        THEN << <<NL, CHOICES, json_dumps(reply.all_choices), END_CHOICES>> >> ELSE <<>>)
    \o (IF Truthy(reply.all_choices) /\ reply.ai_assistant_selected
        THEN << <<NL, SWITCH_PROVIDER, "openai", END_SWITCH>> >> ELSE <<>>)

\* BotpressService.stream_message: httpx.HTTPError is re-raised as Exception, an
\* undecodable body raises from response.json()
BotpressStream(up) ==
    IF up.kind = "ok"
    THEN [pending |-> BotpressChunks(up.reply), raises |-> FALSE, called |-> TRUE, upstream |-> up.kind]
    ELSE [pending |-> <<>>, raises |-> TRUE, called |-> TRUE, upstream |-> up.kind]

\* keep the non-empty contents ("if content: yield content")
NonEmpty(contents) == SelectSeq(contents, LAMBDA c : c # <<>>)

\* OpenAIService.stream_message: every failure is yielded as a text chunk
OpenAIStream(up) ==
    CASE up.kind = "ok" ->
           [pending |-> NonEmpty(up.contents), raises |-> FALSE, called |-> TRUE, upstream |-> up.kind]
      [] up.kind = "status" ->
           [pending |-> << <<ErrorText>> >>, raises |-> FALSE, called |-> TRUE, upstream |-> up.kind]
      [] up.kind = "timeout" ->
           [pending |-> NonEmpty(up.contents) \o << <<ErrorText>> >>, raises |-> FALSE,
            called |-> TRUE, upstream |-> up.kind]
      [] up.kind = "malformed" ->
           [pending |-> NonEmpty(up.contents), raises |-> FALSE, called |-> TRUE, upstream |-> up.kind]

\* OllamaStreamChat.generate_chat (app/services/ollama_serv.py): the "data: " frames
\* it yields, and whether it ends by raising on an upstream failure
OllamaGenerateChat(up) ==
    [frames |-> up.contents, raises |-> up.kind # "ok"]

\* OllamaService.stream_message: yields data['response'] of every frame
OllamaStream(up) ==
    [pending |-> OllamaGenerateChat(up).frames, raises |-> OllamaGenerateChat(up).raises,
     called |-> TRUE, upstream |-> up.kind]

\* strategy.stream_message(request.message, str(thread.id), bot_id=bot_id)
stream_message(strategy, up) ==
    CASE strategy = "botpress" -> BotpressStream(up)
      [] strategy = "openai" -> OpenAIStream(up)
      [] strategy = "ollama" -> OllamaStream(up)

-----------------------------------------------------------------------------
(* event_generator *)

\* the first iteration of the async-for: the adapter makes its upstream call
start_stream(up) ==
    /\ pc = "gen_start"
    /\ stream' = stream_message(cur.strategy, up)
    /\ trace' = Append(trace, "adapter_call")
    /\ pc' = "streaming"
    /\ UNCHANGED <<users, sessions, threads, messages, cache, req, cur, http_status,
                   events, gen, n_turns, import_vars, admin_vars>>

\* one iteration of the async-for: extract the markers, accumulate, send the event
emit_chunk ==
    /\ pc = "streaming"
    /\ stream.pending # <<>>
    /\ LET p == ProcessChunk(Head(stream.pending), gen)
       IN  /\ gen' = [full_content |-> gen.full_content \o p.chunk,
                      choices_data |-> p.choices_data,
                      acts_data |-> p.acts_data]
           /\ events' = Append(events, SseData(p))
    /\ stream' = [stream EXCEPT !.pending = Tail(stream.pending)]
    /\ trace' = Append(trace, "chunk")
    /\ UNCHANGED <<users, sessions, threads, messages, cache, pc, req, cur, http_status,
                   n_turns, import_vars, admin_vars>>

\* the adapter raises: the except branch sends the error event
stream_raises ==
    /\ pc = "streaming"
    /\ stream.pending = <<>>
    /\ stream.raises
    /\ events' = Append(events, ErrorEvent)
    /\ trace' = Append(trace, "raise_stream")
    /\ pc' = "done"
    /\ UNCHANGED <<users, sessions, threads, messages, cache, req, cur, http_status,
                   gen, stream, n_turns, import_vars, admin_vars>>

\* save_assistant_message moved into the loop: it does not wait for the last chunk
save_assistant_message_early(commit_ok) ==
    /\ pc = "streaming"
    /\ ~stream.raises
    /\ gen.full_content # <<>>
    /\ commit_ok
    /\ messages' = Append(messages, [thread_id |-> cur.thread, role |-> "assistant",
                                      content |-> gen.full_content])
    /\ trace' = Append(trace, "commit_assistant")
    /\ pc' = "cache_assistant"
    /\ UNCHANGED <<users, sessions, threads, cache, req, cur, http_status, events, gen,
                   stream, n_turns, import_vars, admin_vars>>

\* "7. Save Assistant Message after streaming completes"; commit_ok: db.commit succeeds
save_assistant_message(commit_ok) ==
    /\ pc = "streaming"
    /\ stream.pending = <<>>
    /\ ~stream.raises
    /\ IF gen.full_content = <<>>
       THEN /\ pc' = "done"
            /\ UNCHANGED <<messages, events, trace>>
       ELSE IF commit_ok
       THEN /\ messages' = Append(messages, [thread_id |-> cur.thread,
                                             role |-> "assistant",
                                             content |-> gen.full_content])
            /\ trace' = Append(trace, "commit_assistant")
            /\ pc' = "cache_assistant"
            /\ UNCHANGED events
       ELSE /\ events' = Append(events, ErrorEvent)
            /\ trace' = Append(trace, "raise_commit")
            /\ pc' = "done"
            /\ UNCHANGED messages
    /\ UNCHANGED <<users, sessions, threads, cache, req, cur, http_status, gen, stream,
                   n_turns, import_vars, admin_vars>>

\* "Cache Assistant Message to Redis"
cache_assistant_message(ok) ==
    /\ pc = "cache_assistant"
    /\ rpush(RedisKey, [role |-> "assistant", content |-> gen.full_content], ok)
    /\ trace' = IF ok THEN Append(trace, "cache_assistant") ELSE trace
    /\ pc' = "done"
    /\ UNCHANGED <<users, sessions, threads, messages, req, cur, http_status, events,
                   gen, stream, n_turns, import_vars, admin_vars>>

-----------------------------------------------------------------------------
(* Requests and upstream responses the chat specifications draw from *)

Hi == <<"hi">>
Hello == <<"hello">>

\* str(id) of every id the model can create
IdHandles == {ToStr(n) : n \in 1..MaxTurns}

\* requests that exercise the resolution of user, session and thread
ResolveRequests ==
    [email : {"a@x", "b@x"},
     session_id : {NONE, "new", "abc"} \cup IdHandles,
     thread_id : {NONE, "NEW"} \cup IdHandles,
     is_new_chat : BOOLEAN,
     provider : {"ollama"},
     app_id : {NONE},
     message : {Hello},
     x_api_key : {"sys_key"}]

\* requests that exercise authentication, provider selection and bot routing
TurnRequests ==
    [email : {"a@x"},
     session_id : {"1"},
     thread_id : {"1"},
     is_new_chat : {FALSE},
     provider : {"BotPress", "ollama", "OpenAI", "carrierpigeon", NONE},
     app_id : {NONE, "t2"},
     message : {Hello},
     x_api_key : {NONE, "sys_key", "w_active", "w_inactive"}]

NoReply ==
    [text_responses |-> <<>>, all_choices |-> "list()", ai_assistant_selected |-> FALSE,
     acts_data |-> PyNone, daily_updates_data |-> PyNone]

\* what the bot platform answers: texts (each a list of lines) and side data
BotpressReplies ==
    {NoReply,
     [NoReply EXCEPT !.text_responses = << <<Hi>> >>],
     [NoReply EXCEPT !.text_responses = << << <<>> >> >>],
     [NoReply EXCEPT !.text_responses = << <<Hi, Hi>> >>, !.all_choices = "list(c1)",
                     !.ai_assistant_selected = TRUE],
     [NoReply EXCEPT !.text_responses = << <<Hi>>, <<Hi>> >>, !.acts_data = "dict(u1)",
                     !.daily_updates_data = "dict(u1)", !.all_choices = "list(c1)"]}

\* what a streaming model answers: the content of each frame
LlmContents == {<<>>, <<Hi>>, <<Hi, Hi>>, << <<>>, Hi >>}

UpstreamKinds == {"ok", "timeout", "status", "malformed"}

Upstream(strategy) ==
    IF strategy = "botpress"
    THEN {[kind |-> "ok", reply |-> r, contents |-> <<>>] : r \in BotpressReplies}
         \cup {[kind |-> k, reply |-> NoReply, contents |-> <<>>] :
                 k \in UpstreamKinds \ {"ok"}}
    ELSE {[kind |-> k, reply |-> NoReply, contents |-> c] :
            k \in UpstreamKinds, c \in LlmContents}

-----------------------------------------------------------------------------
(* Specifications of the chat turn *)

-----------------------------------------------------------------------------
(* ExcelImportService: the files of the imports folder *)

NaN == NONE     \* a blank cell

\* the sheets the model drops into the folder: [readable, columns, rows]; columns
\* says whether every expected column is there (the one left out is
\* employee_applicability), a row is [sl_no, state, industry]
GoodSheet ==
    [readable |-> TRUE, columns |-> TRUE,
     rows |-> <<[sl_no |-> "1", state |-> "KA", industry |-> "IT",
                 legislative_area |-> "Labour", central_acts |-> "Act1"],
                [sl_no |-> "2", state |-> NaN, industry |-> NaN,
                 legislative_area |-> NaN, central_acts |-> "Act2"]>>]
EmptySheet == [GoodSheet EXCEPT !.rows = <<>>]
ShortSheet == [GoodSheet EXCEPT !.columns = FALSE]
BlankKeySheet ==
    [GoodSheet EXCEPT !.rows = <<[sl_no |-> "1", state |-> NaN, industry |-> NaN,
                                  legislative_area |-> "Labour", central_acts |-> NaN]>>]
BrokenFile == [GoodSheet EXCEPT !.readable = FALSE]
Sheets == {GoodSheet, EmptySheet, ShortSheet, BlankKeySheet, BrokenFile}
FileNames == {"a.xlsx", "b.xlsx"}

\* the content columns of a sheet that the model keeps
ContentColumns == {"state", "industry", "legislative_area", "central_acts"}
Blank == [c \in ContentColumns |-> NaN]

\* sheets with merged blocks: state names a block in its first row and is blank
\* below it, legislative_area is one block over the whole sheet
StateCells == {"Maharashtra", "Karnataka", NaN}
MergedRows(states) ==
    [i \in DOMAIN states |->
        [sl_no |-> ToStr(i), state |-> states[i], industry |-> NaN,
         legislative_area |-> IF i = 1 THEN "Labour" ELSE NaN,
         central_acts |-> "Act1"]]
MergedSheets ==
    {[GoodSheet EXCEPT !.rows = MergedRows(states)] :
        states \in UNION {[1..n -> StateCells] : n \in 1..MaxBlockRows}}

\* no forward fill: the blanks stay
ffill_none(rows, last) == rows

RECURSIVE ffill(_, _)
\* df[col].ffill() on every content column: a blank takes the value above it
ffill(rows, last) ==
    IF rows = <<>> THEN <<>>
    ELSE LET r == Head(rows)
             filled == [c \in DOMAIN r |->
                          IF c \in ContentColumns /\ r[c] = NaN THEN last[c] ELSE r[c]]
         IN  <<filled>> \o ffill(Tail(rows), [c \in ContentColumns |-> filled[c]])

\* parse_excel_file: raises on a file pandas cannot read (or that is gone)
parse_excel_file(sheet) ==
    IF ~sheet.readable THEN [raised |-> TRUE, df |-> EmptySheet]
    ELSE LET kept == SelectSeq(sheet.rows, LAMBDA r : \E c \in DOMAIN r : r[c] # NaN)
         IN  [raised |-> FALSE, df |-> [sheet EXCEPT !.rows = ffill(kept, Blank)]]

\* validate_data: the verdict (is_valid); it never raises
validate_data(df) ==
    /\ df.rows # <<>>
    /\ df.columns
    /\ \E i \in 1..Len(df.rows) : df.rows[i].state # NaN \/ df.rows[i].industry # NaN

\* transform_dataframe_to_acts: the rows that have a state or an industry, without sl_no
transform_dataframe_to_acts(df) ==
    LET kept == SelectSeq(df.rows, LAMBDA r : r.state # NaN \/ r.industry # NaN)
    IN  [i \in 1..Len(kept) |-> [c \in ContentColumns |-> kept[i][c]]]

\* process_import that does not consult the verdict of validate_data
process_import_unvalidated(sheet) ==
    LET p == parse_excel_file(sheet)
    IN  IF p.raised \/ transform_dataframe_to_acts(p.df) = <<>>
        THEN [success |-> FALSE, records_count |-> 0]
        ELSE [success |-> TRUE, records_count |-> Len(transform_dataframe_to_acts(p.df))]

\* process_import: (success, records_count); every exception becomes (False, 0)
process_import(sheet) ==
    LET p == parse_excel_file(sheet)
    IN  IF p.raised \/ ~validate_data(p.df) \/ transform_dataframe_to_acts(p.df) = <<>>
        THEN [success |-> FALSE, records_count |-> 0]
        ELSE [success |-> TRUE, records_count |-> Len(transform_dataframe_to_acts(p.df))]

\* bulk_insert without the rollback: the rows before the rejected one stay
bulk_insert_partial(table, acts_data, db_ok) ==
    IF acts_data = <<>> THEN [raised |-> FALSE, count |-> 0, table |-> table]
    ELSE IF db_ok THEN [raised |-> FALSE, count |-> Len(acts_data), table |-> table \o acts_data]
    ELSE [raised |-> TRUE, count |-> 0, table |-> Append(table, Head(acts_data))]

\* Acts.bulk_insert on table: all rows in one transaction, or rollback and raise
bulk_insert(table, acts_data, db_ok) ==
    IF acts_data = <<>> THEN [raised |-> FALSE, count |-> 0, table |-> table]
    ELSE IF db_ok THEN [raised |-> FALSE, count |-> Len(acts_data), table |-> table \o acts_data]
    ELSE [raised |-> TRUE, count |-> 0, table |-> table]

\* archive_file that ignores the outcome: every file goes to processed
archive_file_processed(folder, arch, file, success, move_ok) ==
    IF move_ok /\ file \in folder
    THEN [folder |-> folder \ {file},
          archived |-> arch \cup {[name |-> file.name, to |-> "processed"]}]
    ELSE [folder |-> folder, archived |-> arch]

\* archive_file: the folder and the archive after the move; a failed move is only logged
archive_file(folder, arch, file, success, move_ok) ==
    IF move_ok /\ file \in folder
    THEN [folder |-> folder \ {file},
          archived |-> arch \cup {[name |-> file.name,
                                   to |-> IF success THEN "processed" ELSE "failed"]}]
    ELSE [folder |-> folder, archived |-> arch]

-----------------------------------------------------------------------------
(* ImportScheduler.run_import_job *)

Runners == {"tick", "manual"}   \* the scheduler thread and a request thread

NoJob == [pc |-> "idle", run |-> 0, excel_files |-> <<>>, n_files |-> 0,
          total_processed |-> 0, total_failed |-> 0, began |-> FALSE, result |-> NONE]

\* RedisService.set once awaited: the key holds the value
redis_set(kv, key, value) == [k \in DOMAIN kv \cup {key} |-> IF k = key THEN value ELSE kv[k]]

\* _update_job_status: redis_service.set is a coroutine function and the call is
\* not awaited, so the coroutine never runs and the store keeps what it holds
_update_job_status(kv, status) == kv

\* the status dict of a run: last_run is the run's start, here its number
Status(run, status, processed, failed) ==
    [status |-> status, last_run |-> run, records_processed |-> processed,
     records_failed |-> failed]

\* the statuses the run handed to _update_job_status, in order
Issued(run) == SelectSeq(status_calls, LAMBDA s : s.last_run = run)

\* entry of run_import_job: status running with zero counters
run_import_job(r) ==
    /\ job[r].pc \in {"idle", "returned"}
    /\ n_runs < MaxRuns
    /\ n_runs' = n_runs + 1
    /\ job' = [job EXCEPT ![r] = [NoJob EXCEPT !.pc = "scan", !.run = n_runs + 1]]
    /\ status_calls' = Append(status_calls, Status(n_runs + 1, "running", 0, 0))
    /\ redis_kv' = _update_job_status(redis_kv, Status(n_runs + 1, "running", 0, 0))
    /\ UNCHANGED <<imports_folder, archived, acts_table, chat_vars, admin_vars>>

\* the orders in which glob may list the files
Listings(folder) ==
    {l \in UNION {[1..n -> folder] : n \in {Cardinality(folder)}} :
        \A i, j \in DOMAIN l : i # j => l[i] # l[j]}

\* scan_imports_folder and the branch on its result; scan_ok: the scan does not raise
scan_imports_folder(r, scan_ok) ==
    /\ job[r].pc = "scan"
    /\ IF ~scan_ok
       THEN /\ job' = [job EXCEPT ![r].pc = "returned", ![r].result = "failed"]
            /\ status_calls' = Append(status_calls, Status(job[r].run, "failed", 0, 0))
            /\ redis_kv' = _update_job_status(redis_kv, Status(job[r].run, "failed", 0, 0))
       ELSE IF imports_folder = {}
       THEN /\ job' = [job EXCEPT ![r].pc = "returned", ![r].result = "idle"]
            /\ status_calls' = Append(status_calls, Status(job[r].run, "idle", 0, 0))
            /\ redis_kv' = _update_job_status(redis_kv, Status(job[r].run, "idle", 0, 0))
       ELSE /\ \E l \in Listings(imports_folder) :
                 job' = [job EXCEPT ![r].pc = "loop", ![r].excel_files = l,
                                    ![r].n_files = Len(l)]
            /\ UNCHANGED <<status_calls, redis_kv>>
    /\ UNCHANGED <<imports_folder, archived, acts_table, n_runs, chat_vars, admin_vars>>

\* process_file whose except branch leaves the loop: the files after a failed one
\* are not processed
process_file_break(r, db_ok, move_ok) ==
    /\ job[r].pc = "loop"
    /\ job[r].excel_files # <<>>
    /\ LET file == Head(job[r].excel_files)
           sheet == IF file \in imports_folder THEN file.sheet ELSE BrokenFile
           p == parse_excel_file(sheet)
           acts_data == transform_dataframe_to_acts(p.df)
           expected_count == Len(acts_data)
           imp == process_import(sheet)
           ins == bulk_insert(acts_table, acts_data, db_ok)
           insert == ~p.raised /\ imp.success /\ expected_count > 0
           good == insert /\ ~ins.raised /\ ins.count = expected_count
           raised == p.raised \/ (insert /\ ins.raised)
           a == archive_file(imports_folder, archived, file, good, move_ok)
       IN  /\ acts_table' = IF insert THEN ins.table ELSE acts_table
           /\ imports_folder' = a.folder
           /\ archived' = a.archived
           /\ job' = [job EXCEPT
                        ![r].excel_files = IF raised THEN <<>> ELSE Tail(job[r].excel_files),
                        ![r].began = TRUE,
                        ![r].total_processed = IF good THEN @ + ins.count ELSE @,
                        ![r].total_failed = IF good THEN @ ELSE @ + 1]
    /\ UNCHANGED <<status_calls, redis_kv, n_runs, chat_vars, admin_vars>>

\* process_file without the try/except around the body of the loop: an exception
\* of a file (unreadable file, rejected insert) reaches the handler of the run
process_file_unguarded(r, db_ok, move_ok) ==
    /\ job[r].pc = "loop"
    /\ job[r].excel_files # <<>>
    /\ LET file == Head(job[r].excel_files)
           sheet == IF file \in imports_folder THEN file.sheet ELSE BrokenFile
           p == parse_excel_file(sheet)
           acts_data == transform_dataframe_to_acts(p.df)
           expected_count == Len(acts_data)
           imp == process_import(sheet)
           ins == bulk_insert(acts_table, acts_data, db_ok)
           insert == ~p.raised /\ imp.success /\ expected_count > 0
           good == insert /\ ~ins.raised /\ ins.count = expected_count
           a == archive_file(imports_folder, archived, file, good, move_ok)
       IN  IF p.raised \/ (insert /\ ins.raised)
           THEN /\ job' = [job EXCEPT ![r].pc = "returned", ![r].result = "failed",
                                      ![r].began = TRUE]
                /\ status_calls' = Append(status_calls, Status(job[r].run, "failed", 0, 0))
                /\ UNCHANGED <<acts_table, imports_folder, archived>>
           ELSE /\ acts_table' = IF insert THEN ins.table ELSE acts_table
                /\ imports_folder' = a.folder
                /\ archived' = a.archived
                /\ job' = [job EXCEPT
                             ![r].excel_files = Tail(job[r].excel_files),
                             ![r].began = TRUE,
                             ![r].total_processed = IF good THEN @ + ins.count ELSE @,
                             ![r].total_failed = IF good THEN @ ELSE @ + 1]
                /\ UNCHANGED status_calls
    /\ UNCHANGED <<redis_kv, n_runs, chat_vars, admin_vars>>

\* one iteration of "for file_path in excel_files", with its except branch;
\* db_ok: the database accepts the rows, move_ok: shutil.move succeeds
process_file(r, db_ok, move_ok) ==
    /\ job[r].pc = "loop"
    /\ job[r].excel_files # <<>>
    /\ LET file == Head(job[r].excel_files)
           sheet == IF file \in imports_folder THEN file.sheet ELSE BrokenFile
           p == parse_excel_file(sheet)
           acts_data == transform_dataframe_to_acts(p.df)
           expected_count == Len(acts_data)
           imp == process_import(sheet)
           ins == bulk_insert(acts_table, acts_data, db_ok)
           insert == ~p.raised /\ imp.success /\ expected_count > 0
           good == insert /\ ~ins.raised /\ ins.count = expected_count
           a == archive_file(imports_folder, archived, file, good, move_ok)
       IN  /\ acts_table' = IF insert THEN ins.table ELSE acts_table
           /\ imports_folder' = a.folder
           /\ archived' = a.archived
           /\ job' = [job EXCEPT
                        ![r].excel_files = Tail(job[r].excel_files),
                        ![r].began = TRUE,
                        ![r].total_processed = IF good THEN @ + ins.count ELSE @,
                        ![r].total_failed = IF good THEN @ ELSE @ + 1]
    /\ UNCHANGED <<status_calls, redis_kv, n_runs, chat_vars, admin_vars>>

\* the calls process_import makes on a file, in order
ImportCalls(sheet) ==
    LET p == parse_excel_file(sheet)
    IN  <<"parse_excel_file">>
        \o (IF p.raised THEN <<>> ELSE <<"validate_data">>)
        \o (IF ~p.raised /\ validate_data(p.df)
            THEN <<"transform_dataframe_to_acts">> ELSE <<>>)

\* the calls one iteration of the loop makes on the service and the repository,
\* in order: the loop parses, validates and transforms by itself, drops that
\* verdict, and then asks process_import, which does all three again
LoopCalls(sheet) ==
    LET p == parse_excel_file(sheet)
        acts_data == transform_dataframe_to_acts(p.df)
        imp == process_import(sheet)
    IN  IF p.raised
        THEN <<"parse_excel_file", "archive_file">>
        ELSE <<"parse_excel_file", "validate_data", "transform_dataframe_to_acts",
               "process_import">>
             \o ImportCalls(sheet)
             \o (IF imp.success /\ Len(acts_data) > 0 THEN <<"bulk_insert">> ELSE <<>>)
             \o <<"archive_file">>

\* "Update final status": completed, with the totals
finish_run(r) ==
    /\ job[r].pc = "loop"
    /\ job[r].excel_files = <<>>
    /\ job' = [job EXCEPT ![r].pc = "returned", ![r].result = "completed"]
    /\ status_calls' = Append(status_calls,
                              Status(job[r].run, "completed", job[r].total_processed,
                                     job[r].total_failed))
    /\ redis_kv' = _update_job_status(redis_kv,
                              Status(job[r].run, "completed", job[r].total_processed,
                                     job[r].total_failed))
    /\ UNCHANGED <<imports_folder, archived, acts_table, n_runs, chat_vars, admin_vars>>

\* somebody puts a file into the imports folder
drop_file(name, sheet) ==
    /\ \A f \in imports_folder : f.name # name
    /\ \A a \in archived : a.name # name
    /\ imports_folder' = imports_folder \cup {[name |-> name, sheet |-> sheet]}
    /\ UNCHANGED <<job, archived, acts_table, status_calls, redis_kv, n_runs, chat_vars, admin_vars>>


-----------------------------------------------------------------------------
(* The scheduler's lifecycle and the status endpoint *)

\* the intervals start_scheduler is called with: its default and lifespan's
IntervalMinutes == {5, 1440}

\* the job start_scheduler registers
ExcelImportJob(interval_minutes) ==
    [id |-> "excel_import_job", minutes |-> interval_minutes]

\* BackgroundScheduler.add_job with replace_existing=True: a stopped scheduler
\* queues the job until it starts, a running one stores it in place of the job
\* of the same id
add_job(s, j) ==
    IF s.running
    THEN [s EXCEPT !.jobs = {k \in s.jobs : k.id # j.id} \cup {j}]
    ELSE [s EXCEPT !.pending = Append(s.pending, j)]

\* the job store after the queued jobs were added in order, each replacing the
\* job of its id
RECURSIVE real_add_jobs(_, _)
real_add_jobs(jobs, pending) ==
    IF pending = <<>> THEN jobs
    ELSE real_add_jobs({k \in jobs : k.id # Head(pending).id} \cup {Head(pending)},
                       Tail(pending))

\* BackgroundScheduler.start: raises on a running scheduler (and when its thread
\* cannot be started: ~ok), else stores the queued jobs and runs
scheduler_start(s, ok) ==
    IF s.running \/ ~ok
    THEN [raised |-> TRUE, s |-> s]
    ELSE [raised |-> FALSE,
          s |-> [running |-> TRUE, jobs |-> real_add_jobs(s.jobs, s.pending),
                 pending |-> <<>>]]

\* BackgroundScheduler.shutdown: the memory job store drops its jobs
scheduler_shutdown(s) == [s EXCEPT !.running = FALSE, !.jobs = {}]

\* start_scheduler without its check of scheduler.running
start_scheduler_unguarded(interval_minutes, ok) ==
    /\ Len(scheduler.pending) < MaxPending
    /\ LET added == add_job(scheduler, ExcelImportJob(interval_minutes))
           started == scheduler_start(added, ok)
       IN  /\ scheduler' = started.s
           /\ response' = [kind |-> "start_scheduler", warned |-> FALSE,
                           interval_minutes |-> interval_minutes]
    /\ UNCHANGED <<monthly_updates, pushers, chat_vars, import_vars>>

\* start_scheduler: warns and returns when the scheduler runs; else registers
\* the job and starts; what add_job or start raise is logged and dropped
start_scheduler(interval_minutes, ok) ==
    /\ Len(scheduler.pending) < MaxPending
    /\ IF scheduler.running
       THEN /\ scheduler' = scheduler
            /\ response' = [kind |-> "start_scheduler", warned |-> TRUE,
                            interval_minutes |-> interval_minutes]
       ELSE LET added == add_job(scheduler, ExcelImportJob(interval_minutes))
                started == scheduler_start(added, ok)
            IN  /\ scheduler' = started.s
                /\ response' = [kind |-> "start_scheduler", warned |-> FALSE,
                                interval_minutes |-> interval_minutes]
    /\ UNCHANGED <<monthly_updates, pushers, chat_vars, import_vars>>

\* stop_scheduler: shuts a running scheduler down, else does nothing
stop_scheduler ==
    /\ scheduler' = IF scheduler.running THEN scheduler_shutdown(scheduler)
                    ELSE scheduler
    /\ response' = [kind |-> "stop_scheduler", stopped |-> scheduler.running]
    /\ UNCHANGED <<monthly_updates, pushers, chat_vars, import_vars>>

\* the interval trigger fires the registered job
interval_trigger ==
    /\ scheduler.running
    /\ \E j \in scheduler.jobs : j.id = "excel_import_job"
    /\ run_import_job("tick")

\* Python objects that are not dicts: None and a coroutine object
NoValue == [type |-> "NoneType"]
Coroutine == [type |-> "coroutine"]

\* RedisService.get when awaited: the stored value, None for a missing key
redis_get(kv, key) == IF key \in DOMAIN kv THEN kv[key] ELSE NoValue

\* what calling a coroutine function without await evaluates to: a coroutine
\* object, whatever the body would return
Unawaited(result) == Coroutine

IdleStatus == [status |-> "idle"]
\* get_job_status: redis_service.get is called without await; any object but
\* None, False, zero and empty containers is truthy
get_job_status(kv) ==
    LET status == Unawaited(redis_get(kv, "import_job_status"))
    IN  IF status # NoValue THEN status ELSE IdleStatus

\* GET /import/status: ImportStatusResponse(**status_data) needs a mapping with
\* a status and the model's keys only; any exception becomes a 500
get_import_status ==
    /\ LET status_data == get_job_status(redis_kv)
           mapping == status_data \notin {NoValue, Coroutine}
       IN  response' = [kind |-> "import_status",
                        returned |-> status_data,
                        code |-> IF mapping THEN 200 ELSE 500,
                        seen |-> Len(status_calls)]
    /\ UNCHANGED <<scheduler, monthly_updates, pushers, chat_vars, import_vars>>

-----------------------------------------------------------------------------
(* The acts repository *)

\* rows of table acts, by the columns the model keeps
ActsRow(state, industry, legislative_area, central_acts) ==
    [state |-> state, industry |-> industry, legislative_area |-> legislative_area,
     central_acts |-> central_acts]
ActsBatches ==
    {<<ActsRow("KA", "IT", "Labour", "Act1")>>,
     <<ActsRow("KA", "IT", "Labour", "Act2")>>,
     <<ActsRow("All", "IT", "Labour", "Act3"), ActsRow("TN", "IT", "Labour", "Act1")>>,
     <<ActsRow("CENTRAL", "All", "Tax", "Act4"), ActsRow(NaN, "IT", "Labour", "Act5")>>}

\* the unique constraints of table acts besides its primary key: the migrations
\* create plain indexes only
ActsUniqueConstraints == {}

\* the natural key the upsert names
NaturalKey(row) == <<row.state, row.industry, row.legislative_area>>

\* INSERT ... ON CONFLICT ON CONSTRAINT ... DO UPDATE under a unique constraint
\* on the natural key: a row replaces the stored row of its key, else is added
RECURSIVE on_conflict_do_update(_, _)
on_conflict_do_update(table, rows) ==
    IF rows = <<>> THEN table
    ELSE LET row == Head(rows)
             hit == {i \in DOMAIN table : NaturalKey(table[i]) = NaturalKey(row)}
             next == IF hit = {} THEN Append(table, row)
                     ELSE [i \in DOMAIN table |-> IF i \in hit THEN row ELSE table[i]]
         IN  on_conflict_do_update(next, Tail(rows))

\* Acts.bulk_upsert: the statement names constraint uq_state_industry_legislative;
\* the database rejects a statement that names a constraint the table does not
\* have, and the method rolls back and raises
bulk_upsert(table, acts_data) ==
    IF acts_data = <<>> THEN [raised |-> FALSE, count |-> 0, table |-> table]
    ELSE IF "uq_state_industry_legislative" \notin ActsUniqueConstraints
    THEN [raised |-> TRUE, count |-> 0, table |-> table]
    ELSE [raised |-> FALSE, count |-> Len(acts_data),
          table |-> on_conflict_do_update(table, acts_data)]

\* a caller stores a batch with Acts.bulk_insert
insert_acts(acts_data) ==
    /\ Len(acts_table) + Len(acts_data) <= MaxActs
    /\ acts_table' = bulk_insert(acts_table, acts_data, TRUE).table
    /\ response' = [kind |-> "bulk_insert", batch |-> acts_data]
    /\ UNCHANGED <<job, imports_folder, archived, status_calls, redis_kv, n_runs,
                   scheduler, monthly_updates, pushers, chat_vars>>

\* a caller stores a batch with Acts.bulk_upsert; prev is the batch of the call
\* before when that was an upsert too
upsert_acts(acts_data) ==
    /\ LET up == bulk_upsert(acts_table, acts_data)
       IN  /\ acts_table' = up.table
           /\ response' = [kind |-> "bulk_upsert", batch |-> acts_data,
                           raised |-> up.raised, count |-> up.count,
                           prev |-> IF response.kind = "bulk_upsert"
                                    THEN response.batch ELSE <<>>]
    /\ UNCHANGED <<job, imports_folder, archived, status_calls, redis_kv, n_runs,
                   scheduler, monthly_updates, pushers, chat_vars>>

\* the filters of a query: None (NONE) or a string, which may be empty; skip and
\* limit as the route admits them
StateFilters == {NONE, "", "KA"}
IndustryFilters == {NONE, "IT"}
Pages == {[skip |-> 0, limit |-> 100], [skip |-> 1, limit |-> 1]}
ActsFilter ==
    {[state |-> s, industry |-> i, skip |-> p.skip, limit |-> p.limit] :
        s \in StateFilters, i \in IndustryFilters, p \in Pages}

\* Python truthiness of an optional string ("if filters.state:")
IsSet(f) == f # NONE /\ f # ""

\* lower case of the model's column values
CaseFold(s) ==
    CASE s = "All" -> "all"
      [] s = "CENTRAL" -> "central"
      [] OTHER -> s

\* column.ilike(pattern) for a pattern without wildcards; NULL matches nothing
ilike(value, pattern) == value # NaN /\ CaseFold(value) = CaseFold(pattern)
\* column == value; NULL equals nothing
sql_eq(value, x) == value # NaN /\ value = x

\* the WHERE clause of find_by_filters on one row
Selected(row, filters) ==
    /\ IsSet(filters.state) =>
          \/ sql_eq(row.state, filters.state)
          \/ ilike(row.state, "all")
          \/ ilike(row.state, "central")
    /\ IsSet(filters.industry) =>
          \/ sql_eq(row.industry, filters.industry)
          \/ ilike(row.industry, "all")

\* the orders in which a query without ORDER BY may yield a set of rows
Orderings(ids) ==
    {l \in [1..Cardinality(ids) -> ids] : \A i, j \in DOMAIN l : i # j => l[i] # l[j]}

\* query.offset(skip).limit(limit) on the rows in the order they are yielded
Page(l, skip, limit) ==
    SubSeq(l, skip + 1, IF Len(l) < skip + limit THEN Len(l) ELSE skip + limit)

\* find_by_filters with a state filter that matches the given state only
find_by_filters_exact(table, filters, order) ==
    LET ids == {i \in DOMAIN table :
                   IsSet(filters.state) => sql_eq(table[i].state, filters.state)}
    IN  [total_count |-> Cardinality(ids),
         results |-> Page(order, filters.skip, filters.limit)]

\* find_by_filters: the count of the selected rows and one page of their ids,
\* order being the order in which the database yields the selected rows
find_by_filters(table, filters, order) ==
    LET ids == {i \in DOMAIN table : Selected(table[i], filters)}
    IN  [total_count |-> Cardinality(ids),
         results |-> Page(order, filters.skip, filters.limit)]

\* GET /acts: a row is known by its id, its place in the table
get_acts(filters) ==
    /\ \E order \in Orderings({i \in DOMAIN acts_table : Selected(acts_table[i], filters)}) :
         LET found == find_by_filters(acts_table, filters, order)
         IN  response' = [kind |-> "get_acts", filters |-> filters,
                          total |-> found.total_count, data |-> found.results]
    /\ UNCHANGED <<scheduler, monthly_updates, pushers, chat_vars, import_vars>>

-----------------------------------------------------------------------------
(* MonthlyUpdatesImportService and the monthly_updates repository *)

\* cells of a sheet as pandas reads them: a blank (NaN), a string, a Timestamp
\* (a cell formatted as a date) or a number
StrCell(text) == [type |-> "str", text |-> text]
TimestampCell(day) == [type |-> "Timestamp", day |-> day]
NumberCell(n) == [type |-> "int", n |-> n]
NaNCell == [type |-> "NaN"]
\* a datetime.date, the value a date column stores
DateValue(day) == [type |-> "date", day |-> day]


\* the strings pd.to_datetime reads as a date, with the day each one means
DateStrings == {<<"2024-01-15", "2024-01-15">>, <<"15 Jan 2024", "2024-01-15">>}
Parses(text) == \E d \in DateStrings : d[1] = text
to_datetime(text) == (CHOOSE d \in DateStrings : d[1] = text)[2]

db_columns == {"title", "category", "description", "change_type", "state",
               "effective_date", "update_date", "source_link"}
required_fields == db_columns \ {"source_link"}
date_columns == {"effective_date", "update_date"}

\* rows of the sheets the model uploads
UpdateRow(title, effective_date, update_date) ==
    [title |-> title, category |-> StrCell("Labour"), description |-> StrCell(" text "),
     change_type |-> StrCell("New"), state |-> StrCell("KA"),
     effective_date |-> effective_date, update_date |-> update_date,
     source_link |-> NaNCell]
SheetRows ==
    {UpdateRow(StrCell("Wages "), StrCell("15 Jan 2024"), TimestampCell("2024-02-01")),
     UpdateRow(StrCell("Leave"), NaNCell, TimestampCell("2024-02-01")),
     UpdateRow(StrCell("Gratuity"), TimestampCell("2024-01-15"), StrCell("soon")),
     UpdateRow(NaNCell, StrCell("2024-01-15"), TimestampCell("2024-02-01")),
     UpdateRow(StrCell("Shops"), NumberCell(45000), TimestampCell("2024-02-01")),
     [c \in db_columns |-> NaNCell]}

\* the uploaded sheets: [columns, rows], columns says whether every required
\* column is there; up to MaxSheetRows rows
MonthlySheets ==
    [columns : {TRUE}, rows : UNION {[1..n -> SheetRows] : n \in 0..MaxSheetRows}]
    \cup [columns : {FALSE}, rows : [1..1 -> SheetRows]]

isna(cell) == cell = NaNCell

\* the parsing part of process_excel_stream and parse_excel_file:
\* dropna(how='all')
dropna_all(rows) == SelectSeq(rows, LAMBDA r : \E c \in DOMAIN r : ~isna(r[c]))

\* MonthlyUpdatesImportService.validate_data: the verdict
updates_validate_data(df) ==
    /\ df.rows # <<>>
    /\ df.columns
    /\ \E i \in DOMAIN df.rows, c \in {"title", "category", "state"} : ~isna(df.rows[i][c])

\* the inner loop of transform_dataframe_to_updates on one cell: whether the
\* column is set in update_dict (a continue leaves it unset) and to what
ConvertCell(col, value) ==
    IF col \in date_columns
    THEN IF isna(value) THEN [set |-> FALSE, value |-> NoValue]
         ELSE IF value.type = "str"
         THEN IF Parses(value.text)
              THEN [set |-> TRUE, value |-> DateValue(to_datetime(value.text))]
              ELSE [set |-> FALSE, value |-> NoValue]
         ELSE IF value.type = "Timestamp" THEN [set |-> TRUE, value |-> DateValue(value.day)]
         ELSE [set |-> TRUE, value |-> value]
    ELSE IF isna(value)
    THEN IF col = "source_link" THEN [set |-> TRUE, value |-> NoValue]
         ELSE [set |-> FALSE, value |-> NoValue]
    ELSE [set |-> TRUE, value |-> value]

\* str.strip on the model's strings
StripText(text) ==
    CASE text = " text " -> "text"
      [] text = "Wages " -> "Wages"
      [] OTHER -> text
Strip(value) == IF value.type = "str" THEN StrCell(StripText(value.text)) ELSE value

\* whether a row is appended: every required field is set and is not None
RowKept(row) ==
    \A f \in required_fields :
        ConvertCell(f, row[f]).set /\ ConvertCell(f, row[f]).value # NoValue

\* the dict of a kept row
update_dict(row) ==
    [c \in db_columns |->
        IF c \in date_columns THEN ConvertCell(c, row[c]).value
        ELSE Strip(ConvertCell(c, row[c]).value)]

\* transform_dataframe_to_updates: the dicts of the rows that are kept, in order;
\* a column that is not in the sheet is set in no row
transform_dataframe_to_updates(df) ==
    LET kept == SelectSeq(df.rows, LAMBDA r : df.columns /\ RowKept(r))
    IN  [i \in 1..Len(kept) |-> update_dict(kept[i])]

\* the unique constraints of table monthly_updates besides its primary key
UpdatesUniqueConstraints == {}

\* the database accepts a row when its date columns hold dates
RowAccepted(row) == \A c \in date_columns : row[c].type = "date"

\* INSERT ... ON CONFLICT DO NOTHING: a row that agrees with a stored row on the
\* columns of some unique constraint is left out
RECURSIVE on_conflict_do_nothing(_, _)
on_conflict_do_nothing(table, rows) ==
    IF rows = <<>> THEN table
    ELSE LET row == Head(rows)
             conflict == \E u \in UpdatesUniqueConstraints, i \in DOMAIN table :
                             \A c \in u : table[i][c] = row[c]
         IN  on_conflict_do_nothing(IF conflict THEN table ELSE Append(table, row),
                                    Tail(rows))

\* MonthlyUpdates.bulk_upsert: one statement and a commit, or rollback and raise;
\* db_ok: the database is reachable
updates_bulk_upsert(table, updates_data, db_ok) ==
    IF updates_data = <<>> THEN [raised |-> FALSE, count |-> 0, table |-> table]
    ELSE IF ~db_ok \/ \E i \in DOMAIN updates_data : ~RowAccepted(updates_data[i])
    THEN [raised |-> TRUE, count |-> 0, table |-> table]
    ELSE [raised |-> FALSE, count |-> Len(updates_data),
          table |-> on_conflict_do_nothing(table, updates_data)]

\* process_excel_stream (and process_import, which differs in reading the file
\* from a path): (success, records_count) and the table afterwards
process_excel_stream(table, sheet, db_ok) ==
    LET df == [sheet EXCEPT !.rows = dropna_all(sheet.rows)]
        updates_data == transform_dataframe_to_updates(df)
        up == updates_bulk_upsert(table, updates_data, db_ok)
    IN  IF ~updates_validate_data(df) \/ updates_data = <<>> \/ up.raised
        THEN [success |-> FALSE, records_count |-> 0, table |-> table]
        ELSE [success |-> TRUE, records_count |-> up.count, table |-> up.table]

\* POST /monthly-updates/import: the upload of a sheet
import_excel_file(sheet, db_ok) ==
    /\ Len(monthly_updates) + Len(sheet.rows) <= MaxUpdates
    /\ LET p == process_excel_stream(monthly_updates, sheet, db_ok)
       IN  /\ monthly_updates' = p.table
           /\ response' = [kind |-> "import_excel_file", sheet |-> sheet, db_ok |-> db_ok,
                           success |-> p.success, records_processed |-> p.records_count]
    /\ UNCHANGED <<scheduler, pushers, chat_vars, import_vars>>

-----------------------------------------------------------------------------
(* RedisService.rpush, one awaited Redis command at a time *)

\* the turns that append to one chat_history key at the same time
Callers == {"turn1", "turn2"}

\* the chat_history key the concurrent turns share
HistoryKey == <<1, 1>>

\* no rpush call in flight, nothing appended yet
NoPushers == [pc |-> [c \in Callers |-> "idle"], n |-> 0, untrimmed |-> FALSE]

\* LTRIM key -max_len -1 cutting the tail instead of the head
ltrim_tail(list, max_len) ==
    IF Len(list) > max_len THEN SubSeq(list, 1, max_len) ELSE list

\* client.ltrim(key, -max_len, -1): keep the last max_len entries
ltrim(list, max_len) ==
    IF Len(list) > max_len
    THEN SubSeq(list, Len(list) - max_len + 1, Len(list))
    ELSE list

\* the list stored under the key, with l in place of it
SetList(key, l) == [k \in DOMAIN cache \cup {key} |-> IF k = key THEN l ELSE cache[k]]

\* a turn enters RedisService.rpush
rpush_call(c) ==
    /\ pushers.pc[c] = "idle"
    /\ pushers.n + Cardinality({d \in Callers : pushers.pc[d] = "rpush"}) < MaxPushes
    /\ pushers' = [pushers EXCEPT !.pc[c] = "rpush"]
    /\ UNCHANGED <<scheduler, monthly_updates, response, chat_vars, import_vars>>

\* await client.rpush(key, value); an entry is named by its place in append order;
\* an exception leaves the call through the except branch
client_rpush(c, ok) ==
    /\ pushers.pc[c] = "rpush"
    /\ IF ok
       THEN /\ cache' = SetList(HistoryKey, Append(CacheList(HistoryKey), pushers.n + 1))
            /\ pushers' = [pushers EXCEPT !.pc[c] = "ltrim", !.n = @ + 1,
                                          !.untrimmed = TRUE]
       ELSE /\ pushers' = [pushers EXCEPT !.pc[c] = "idle"]
            /\ UNCHANGED cache
    /\ UNCHANGED <<users, sessions, threads, messages, pc, req, cur, http_status, events,
                   gen, stream, trace, n_turns, scheduler, monthly_updates, response,
                   import_vars>>

\* await client.ltrim(key, -max_len, -1)
client_ltrim(c, ok) ==
    /\ pushers.pc[c] = "ltrim"
    /\ IF ok
       THEN /\ cache' = SetList(HistoryKey,
                                ltrim(CacheList(HistoryKey), REDIS_CHAT_HISTORY_MAX_LEN))
            /\ pushers' = [pushers EXCEPT !.pc[c] = "expire", !.untrimmed = FALSE]
       ELSE /\ pushers' = [pushers EXCEPT !.pc[c] = "idle"]
            /\ UNCHANGED cache
    /\ UNCHANGED <<users, sessions, threads, messages, pc, req, cur, http_status, events,
                   gen, stream, trace, n_turns, scheduler, monthly_updates, response,
                   import_vars>>

\* await client.expire(key, ttl); the call returns
client_expire(c, ok) ==
    /\ pushers.pc[c] = "expire"
    /\ pushers' = [pushers EXCEPT !.pc[c] = "idle"]
    /\ UNCHANGED <<scheduler, monthly_updates, response, chat_vars, import_vars>>

-----------------------------------------------------------------------------
(* update_user: renaming a guest user or merging it into an existing one *)

\* emails and names the endpoint is called with
UpdateEmails == {"a@x", "b@x", "c@x"}
UpdateNames == {NONE, "n"}

\* the flush of db.delete(user): the backref User.chat_sessions has no delete
\* cascade, so the unit of work loads the user's sessions and sets their user_id
\* to NULL, overwriting the assignment made in the loop; chat_sessions.user_id is
\* NOT NULL, the UPDATE raises IntegrityError and nothing is committed
delete_user(user) ==
    IF \E s \in sessions : s.user_id = user
    THEN [error |-> "IntegrityError", users |-> users]
    ELSE [error |-> NONE, users |-> {u \in users : u.id # user}]

\* PUT /user/update
update_user(current_email, new_email, name) ==
    LET user == UserByEmail(current_email)
        existing_new == UserByEmail(new_email)
        call == [kind |-> "update_user", current_email |-> current_email,
                 new_email |-> new_email]
    IN  /\ IF user = NoRow
           THEN /\ response' = [call EXCEPT !.kind = "update_user"] @@
                      (IF existing_new # NoRow
                       THEN [status |-> 200, message |-> "User already exists",
                             user_id |-> existing_new]
                       ELSE [status |-> 404, message |-> "Current user not found",
                             user_id |-> NoRow])
                /\ UNCHANGED users
           ELSE IF existing_new # NoRow
           THEN LET flushed == delete_user(user)
                IN  /\ users' = flushed.users
                    /\ response' = call @@
                         (IF flushed.error = NONE
                          THEN [status |-> 200,
                                message |-> "Merged guest session to existing user",
                                user_id |-> existing_new]
                          ELSE [status |-> 500, message |-> flushed.error,
                                user_id |-> NoRow])
           ELSE /\ users' = {IF u.id = user
                             THEN [u EXCEPT !.email = new_email,
                                            !.name = IF name # NONE THEN name ELSE @]
                             ELSE u : u \in users}
                /\ response' = call @@
                     [status |-> 200, message |-> "User updated successfully",
                      user_id |-> user]
        /\ UNCHANGED <<sessions, threads, messages, cache, pc, req, cur, http_status,
                       events, gen, stream, trace, n_turns, scheduler, monthly_updates,
                       pushers, import_vars>>

\* chat requests of two users that open sessions or come back to session 1
MergeRequests ==
    [email : {"a@x", "b@x"},
     session_id : {NONE, "1"},
     thread_id : {NONE},
     is_new_chat : {FALSE},
     provider : {"ollama"},
     app_id : {NONE},
     message : {Hello},
     x_api_key : {"sys_key"}]

-----------------------------------------------------------------------------
(* BotpressService.stream_message: the expectation flags of one conversation *)

\* the keys ric:session:{session_id}:expecting_..., in the order of the if/elif chain
ExpectationKeys == <<"expecting_org_type", "expecting_industry_type",
                     "expecting_employee_size">>
ExpectationFlags == {ExpectationKeys[i] : i \in DOMAIN ExpectationKeys}

\* user inputs: free text, and the JSON payload of a clicked choice
TextInput == <<"pvt", "ltd">>
PayloadInput == <<"{", "payload", "}">>
UserInputs == {TextInput, PayloadInput}

\* message.strip().startswith("{")
StartsWithBrace(message) == message # <<>> /\ message[1] = "{"

\* classify_organization, classify_industry, classify_employee_size: the category
\* the classifier names for the text, never an empty value
Classify(flag, message) == <<"category", flag>>

\* RedisService.delete
redis_delete(kv, key) == [k \in DOMAIN kv \ {key} |-> kv[k]]

RECURSIVE SetAll(_, _)
\* one redis_service.set(key, "true", ttl=600) for every trigger phrase in the reply
SetAll(kv, keys) ==
    IF keys = {} THEN kv
    ELSE LET k == CHOOSE x \in keys : TRUE IN SetAll(redis_set(kv, k, "true"), keys \ {k})

\* the flags that are set in the store: redis_service.get yields the value "true"
\* of a key that exists and None otherwise ("if is_expecting_org:")
FlagsSet(kv) == {f \in ExpectationFlags : f \in DOMAIN kv}

\* the flag the if/elif chain acts on: the first one that is set
FirstFlag(kv) ==
    IF FlagsSet(kv) = {} THEN NONE
    ELSE ExpectationKeys[CHOOSE i \in DOMAIN ExpectationKeys :
                           /\ ExpectationKeys[i] \in FlagsSet(kv)
                           /\ \A j \in 1..(i - 1) : ExpectationKeys[j] \notin FlagsSet(kv)]

\* "LLM INTERCEPTION": a message that does not start with "{" goes through the
\* classifier of the first flag that is set, and that flag is deleted
Intercept(kv, message) ==
    IF ~StartsWithBrace(message) /\ FirstFlag(kv) # NONE
    THEN [classifier |-> FirstFlag(kv), message |-> Classify(FirstFlag(kv), message),
          kv |-> redis_delete(kv, FirstFlag(kv))]
    ELSE [classifier |-> NONE, message |-> message, kv |-> kv]

\* one turn of the adapter: interception, the upstream call, and the "HEURISTIC
\* TRIGGER CHECK" on the reply; triggers: the flags whose phrase the reply holds,
\* upstream_ok: the call returned a reply
botpress_turn(message, triggers, upstream_ok) ==
    LET i == Intercept(redis_kv, message)
    IN  /\ redis_kv' = IF upstream_ok THEN SetAll(i.kv, triggers) ELSE i.kv
        /\ response' = [kind |-> "stream_message", message |-> message,
                        classifier |-> i.classifier, sent |-> i.message,
                        flags_at_call |-> FlagsSet(i.kv),
                        triggers |-> IF upstream_ok THEN triggers ELSE {}]
        /\ UNCHANGED <<job, imports_folder, archived, acts_table, status_calls, n_runs,
                       scheduler, monthly_updates, pushers, chat_vars>>

-----------------------------------------------------------------------------
(* The two data families in the shared imports folder *)

\* a workbook of monthly updates as the Acts parser reads it (header=1, Acts
\* column names): the expected Acts columns are not there
MonthlyWorkbook == ShortSheet
MonthlyFileName == "Monthly Updates.xlsx"
FamilyFileNames == {"a.xlsx", MonthlyFileName}

\* 'monthly updates' in f.name.lower()
IsMonthlyUpdatesName(name) == name = MonthlyFileName

\* scan_monthly_updates_files: the Excel files of the folder with such a name
scan_monthly_updates_files ==
    /\ response' = [kind |-> "scan_monthly_updates_files",
                    files |-> {f.name : f \in {g \in imports_folder :
                                                 IsMonthlyUpdatesName(g.name)}}]
    /\ UNCHANGED <<scheduler, monthly_updates, pushers, chat_vars, import_vars>>

-----------------------------------------------------------------------------
(* Specifications *)

InitChat ==
    /\ users = {}
    /\ sessions = {}
    /\ threads = {}
    /\ messages = <<>>
    /\ cache = <<>>
    /\ pc = "idle"
    /\ req = NoReq
    /\ cur = NoCur
    /\ http_status = 0
    /\ events = <<>>
    /\ gen = NoGen
    /\ stream = NoStream
    /\ trace = <<>>
    /\ n_turns = 0

\* the upstream responses drawn while the resolution is exercised
ResolveUpstream ==
    {[kind |-> "ok", reply |-> NoReply, contents |-> c] : c \in {<<>>, <<Hi>>}}

\* no import run yet, an empty folder, an empty acts table, an empty store
InitImport ==
    /\ job = [r \in Runners |-> NoJob]
    /\ imports_folder = {}
    /\ archived = {}
    /\ acts_table = <<>>
    /\ status_calls = <<>>
    /\ redis_kv = <<>>
    /\ n_runs = 0

\* the scheduler not started, an empty monthly_updates table, no call answered
NoResponse == [kind |-> NONE]
NoScheduler == [running |-> FALSE, jobs |-> {}, pending |-> <<>>]
InitAdmin ==
    /\ scheduler = NoScheduler
    /\ monthly_updates = <<>>
    /\ response = NoResponse
    /\ pushers = NoPushers

Init == InitChat /\ InitImport /\ InitAdmin

\* any sequence of chat requests that differ in identity and handles
Next ==
    \/ \E r \in ResolveRequests : chat_endpoint(r)
    \/ cache_user_message(TRUE)
    \/ select_strategy(TRUE)
    \/ \E up \in ResolveUpstream : start_stream(up)
    \/ emit_chunk
    \/ save_assistant_message(TRUE)
    \/ cache_assistant_message(TRUE)
Spec == Init /\ [][Next]_vars

\* any sequence of chat requests that differ in key, provider and routing, with
\* every upstream response and every failure of the store and the cache
NextTurn ==
    \/ \E r \in TurnRequests : n_turns < MaxFaultTurns /\ chat_endpoint(r)
    \/ \E ok \in BOOLEAN : cache_user_message(ok)
    \/ \E db_ok \in BOOLEAN : select_strategy(db_ok)
    \/ \E up \in Upstream(cur.strategy) : start_stream(up)
    \/ emit_chunk
    \/ stream_raises
    \/ \E commit_ok \in BOOLEAN : save_assistant_message(commit_ok)
    \/ \E ok \in BOOLEAN : cache_assistant_message(ok)
SpecTurn == Init /\ [][NextTurn]_vars

\* import runs of both threads on folders of any content, with every failure of
\* the scan, the database and the archive move
NextImport ==
    \/ \E name \in FileNames, sheet \in Sheets : drop_file(name, sheet)
    \/ \E r \in Runners : run_import_job(r)
    \/ \E r \in Runners, scan_ok \in BOOLEAN : scan_imports_folder(r, scan_ok)
    \/ \E r \in Runners, db_ok, move_ok \in BOOLEAN : process_file(r, db_ok, move_ok)
    \/ \E r \in Runners : finish_run(r)
SpecImport == Init /\ [][NextImport]_vars

\* the application's scheduler: started and stopped by lifecycle hooks, its
\* job importing what is dropped into the folder, and the status endpoint
NextScheduler ==
    \/ \E m \in IntervalMinutes, ok \in BOOLEAN : start_scheduler(m, ok)
    \/ stop_scheduler
    \/ interval_trigger
    \/ \E sheet \in {GoodSheet, EmptySheet} : drop_file("a.xlsx", sheet)
    \/ \E scan_ok \in BOOLEAN : scan_imports_folder("tick", scan_ok)
    \/ \E db_ok \in BOOLEAN : process_file("tick", db_ok, TRUE)
    \/ finish_run("tick")
    \/ get_import_status
SpecScheduler == Init /\ [][NextScheduler]_vars

\* callers of the acts repository
NextActs ==
    \/ \E acts_data \in ActsBatches : insert_acts(acts_data)
    \/ \E acts_data \in ActsBatches : upsert_acts(acts_data)
    \/ \E filters \in ActsFilter : get_acts(filters)
SpecActs == Init /\ [][NextActs]_vars

\* imports of acts sheets with merged blocks by manual runs
NextMerged ==
    \/ \E sheet \in MergedSheets : drop_file("a.xlsx", sheet)
    \/ run_import_job("manual")
    \/ scan_imports_folder("manual", TRUE)
    \/ \E move_ok \in BOOLEAN : process_file("manual", TRUE, move_ok)
    \/ finish_run("manual")
SpecMerged == Init /\ [][NextMerged]_vars

\* uploads of monthly-updates sheets
NextUpdates ==
    \E sheet \in MonthlySheets, db_ok \in BOOLEAN : import_excel_file(sheet, db_ok)
SpecUpdates == Init /\ [][NextUpdates]_vars

-----------------------------------------------------------------------------
\* two turns on one thread appending to its history, every command able to fail
NextCache ==
    \/ \E c \in Callers : rpush_call(c)
    \/ \E c \in Callers, ok \in BOOLEAN : client_rpush(c, ok)
    \/ \E c \in Callers, ok \in BOOLEAN : client_ltrim(c, ok)
    \/ \E c \in Callers, ok \in BOOLEAN : client_expire(c, ok)

SpecCache == Init /\ [][NextCache]_vars

\* chat turns of two users and, between turns, calls of the update endpoint
NextUsers ==
    \/ \E r \in MergeRequests : chat_endpoint(r)
    \/ cache_user_message(TRUE)
    \/ select_strategy(TRUE)
    \/ \E up \in ResolveUpstream : start_stream(up)
    \/ emit_chunk
    \/ save_assistant_message(TRUE)
    \/ cache_assistant_message(TRUE)
    \/ \E c \in UpdateEmails, n \in UpdateEmails, name \in UpdateNames :
         pc \in {"idle", "done"} /\ update_user(c, n, name)
SpecUsers == Init /\ [][NextUsers]_vars

\* turns of one conversation with the bot platform: any input, any reply
NextFlags ==
    \E message \in UserInputs, triggers \in SUBSET ExpectationFlags, ok \in BOOLEAN :
        botpress_turn(message, triggers, ok)
SpecFlags == Init /\ [][NextFlags]_vars

\* Acts files and a monthly-updates file in app/imports, runs of the Acts job,
\* and scans of the monthly-updates import
NextFamilies ==
    \/ \E sheet \in {GoodSheet, EmptySheet} : drop_file("a.xlsx", sheet)
    \/ drop_file(MonthlyFileName, MonthlyWorkbook)
    \/ run_import_job("manual")
    \/ scan_imports_folder("manual", TRUE)
    \/ \E db_ok, move_ok \in BOOLEAN : process_file("manual", db_ok, move_ok)
    \/ finish_run("manual")
    \/ scan_monthly_updates_files
SpecFamilies == Init /\ [][NextFamilies]_vars

-----------------------------------------------------------------------------
(* Claims about the chat turn *)

InTrace(e) == \E i \in 1..Len(trace) : trace[i] = e
Pos(e) == CHOOSE i \in 1..Len(trace) : trace[i] = e
\* b happens only after a
After(b, a) == InTrace(b) => (InTrace(a) /\ \A i \in 1..Len(trace) : trace[i] = b => Pos(a) < i)

ErrorEvents == {i \in 1..Len(events) : events[i].kind = "error"}
TurnOpen == pc # "idle" /\ cur.session # NoRow

\* the request names, by a numeric handle, a session of another user
ForeignSessionHandle ==
    /\ IsDigit(req.session_id)
    /\ \E s \in sessions : s.id = ToInt(req.session_id) /\ s.user_id # cur.user

\* the request names, by a numeric handle, a thread of another user's session
ForeignThreadHandle ==
    /\ IsDigit(req.thread_id)
    /\ \E t \in threads : /\ t.id = ToInt(req.thread_id)
                          /\ \E s \in sessions : s.id = t.session_id /\ s.user_id # cur.user

C1_Chain ==
    TurnOpen =>
        /\ \E u \in users : u.id = cur.user /\ u.email = req.email
        /\ \E s \in sessions : s.id = cur.session /\ s.user_id = cur.user
        /\ \E t \in threads : t.id = cur.thread /\ t.session_id = cur.session
        /\ \A t1, t2 \in threads : t1.id = t2.id => t1 = t2
        /\ \A s1, s2 \in sessions : s1.id = s2.id => s1 = s2
        /\ \A i \in 1..Len(messages) : \E t \in threads : t.id = messages[i].thread_id
        /\ ForeignSessionHandle => (cur.new_session /\ cur.new_thread)
        /\ ForeignThreadHandle => cur.new_thread

C1_Frame ==
    cur'.session # NoRow =>
        /\ messages' # messages =>
             \E m \in [thread_id : {cur'.thread}, role : {"user", "assistant"},
                       content : {req'.message, gen'.full_content}] :
                 messages' = Append(messages, m)
        /\ \A s \in sessions : s.user_id # cur'.user =>
             /\ {t \in threads' : t.session_id = s.id} = {t \in threads : t.session_id = s.id}
             /\ \A t \in threads : t.session_id = s.id =>
                  MessagesIn(messages', t.id) = MessagesIn(messages, t.id)

\* C1: in every step of every turn the session used is owned by the user of the
\* request's email, the thread used belongs to that session and every message
\* persisted belongs to that thread; a numeric handle of another user's session or
\* thread is not reused (a new session and thread are created), and the sessions
\* and threads of other users gain no thread and no message.
C1_Ownership == [][C1_Chain' /\ C1_Frame]_vars

\* a finished turn of b@x that named a session of a@x and got a new session and thread
C1_Witness ==
    /\ pc = "done"
    /\ req.email = "b@x"
    /\ ForeignSessionHandle
    /\ ForeignThreadHandle
    /\ cur.new_session /\ cur.new_thread
    /\ Len(MessagesOf(cur.thread)) = 2

\* the request carries is_new_chat and a thread_id that names a thread of the
\* resolved session other than the one the turn is served on
ForceNew(old) ==
    /\ req'.is_new_chat
    /\ cur'.session # NoRow
    /\ IsDigit(req'.thread_id)
    /\ old = ToInt(req'.thread_id)
    /\ \E t \in threads : t.id = old /\ t.session_id = cur'.session

C2_Step ==
    \A old \in {t.id : t \in threads} :
        ForceNew(old) =>
            IF pc \in {"idle", "done"}
            THEN /\ cur'.thread \notin {t.id : t \in threads}
                 /\ {t \in threads' : t.session_id = cur'.session}
                      = {t \in threads : t.session_id = cur'.session}
                          \cup {t \in threads' : t.id = cur'.thread}
                 /\ \E t \in threads' : t.id = cur'.thread /\ t.session_id = cur'.session
                 /\ MessagesIn(messages', old) = MessagesIn(messages, old)
            ELSE old # cur'.thread => MessagesIn(messages', old) = MessagesIn(messages, old)

\* C2: a request with a valid thread_id of the resolved session and is_new_chat is
\* served on a thread whose id was not used before, created in the same session,
\* so that each such request adds one more thread to the session's list; no step
\* of the turn changes the message list of the thread named by thread_id.
C2_ForceNewThread == [][C2_Step]_vars

\* a finished second force-new turn on one session: three distinct threads listed
C2_Witness ==
    /\ pc = "done"
    /\ req.is_new_chat
    /\ IsDigit(req.thread_id)
    /\ ToInt(req.thread_id) # cur.thread
    /\ \E t \in threads : t.id = ToInt(req.thread_id) /\ t.session_id = cur.session
    /\ cur.new_thread /\ ~cur.new_session
    /\ Cardinality(ThreadsOf(cur.session)) = 3
    /\ Len(MessagesOf(ToInt(req.thread_id))) = 2
    /\ Len(MessagesOf(cur.thread)) = 2

\* C3: the user message is committed before the adapter is called, the assistant
\* message is committed only after the adapter was called and its stream is used
\* up (no chunk follows the commit), and each cache mirror follows the commit of
\* the message it mirrors.
C3_Ordering ==
    /\ After("adapter_call", "commit_user")
    /\ After("cache_user", "commit_user")
    /\ After("commit_assistant", "adapter_call")
    /\ After("cache_assistant", "commit_assistant")
    /\ InTrace("commit_assistant") =>
         /\ stream.pending = <<>>
         /\ \A i \in 1..Len(trace) : trace[i] = "chunk" => i < Pos("commit_assistant")
    /\ InTrace("commit_user") =>
         \E i \in 1..Len(messages) :
             messages[i] = [thread_id |-> cur.thread, role |-> "user",
                            content |-> req.message]
    /\ stream.called => InTrace("commit_user")

\* a finished turn that streamed several chunks and mirrored both messages
C3_Witness ==
    /\ pc = "done"
    /\ InTrace("cache_user") /\ InTrace("cache_assistant")
    /\ Cardinality({i \in 1..Len(trace) : trace[i] = "chunk"}) >= 3

RaisedInSteps4to7 == InTrace("raise_select") \/ InTrace("raise_stream") \/ InTrace("raise_commit")

\* C4: any exception of steps 4 to 7 ends the turn with exactly one error
\* event, the last of the stream, and never with an HTTP error status.
C4_AsStated ==
    (pc = "done" /\ RaisedInSteps4to7) =>
        /\ http_status = 200
        /\ Cardinality(ErrorEvents) = 1
        /\ events[Len(events)].kind = "error"

\* a request whose provider is null: AttributeError in get_strategy, answered
\* with status 500 and no event, after the user message was committed
C4_Failing ==
    /\ pc = "done"
    /\ req.provider = NONE
    /\ InTrace("commit_user") /\ InTrace("raise_select")
    /\ http_status = 500
    /\ events = <<>>

\* C5: a request whose provider is a string other than botpress, ollama, openai
\* (in any case) ends with status 400, no adapter call and no event, after the user
\* message was committed: the thread's last message is that user message.
C5_UnknownProvider ==
    (pc = "done" /\ http_status # 401 /\ req.provider \notin {NONE, "BotPress", "ollama", "OpenAI"}) =>
        /\ http_status = 400
        /\ ~stream.called
        /\ events = <<>>
        /\ InTrace("commit_user")
        /\ MessagesOf(cur.thread) # <<>>
        /\ MessagesOf(cur.thread)[Len(MessagesOf(cur.thread))]
             = [thread_id |-> cur.thread, role |-> "user", content |-> req.message]
        /\ messages[Len(messages)].role = "user"

\* an unknown provider rejected on a thread that an earlier turn already used
C5_Witness ==
    /\ pc = "done"
    /\ req.provider = "carrierpigeon"
    /\ http_status = 400
    /\ ~cur.new_thread
    /\ Len(MessagesOf(cur.thread)) >= 3

\* C8: whenever the upstream call of any adapter fails, the stream ends
\* with exactly one error event, and the failure is neither sent as response text
\* nor persisted as an assistant message.
C8_AsStated ==
    (pc = "done" /\ stream.called /\ stream.upstream # "ok") =>
        /\ Cardinality(ErrorEvents) = 1
        /\ events[Len(events)].kind = "error"
        /\ \A i \in 1..Len(events) : ~Contains(events[i].response, ErrorText)
        /\ \A i \in 1..Len(messages) : ~Contains(messages[i].content, ErrorText)

\* the openai adapter on a non-200 upstream status: the failure text is sent as a
\* response chunk and persisted as the assistant message, and no error event is sent
C8_Failing ==
    /\ pc = "done"
    /\ cur.strategy = "openai"
    /\ stream.upstream = "status"
    /\ ErrorEvents = {}
    /\ \E i \in 1..Len(events) : Contains(events[i].response, ErrorText)
    /\ messages[Len(messages)] = [thread_id |-> cur.thread, role |-> "assistant",
                                   content |-> <<ErrorText>>]

-----------------------------------------------------------------------------
(* The marker extraction on chunks of marked text *)

\* the pieces a chunk of marked text is made of: plain text, the separator, and
\* spans that are well formed, hold no JSON document, or miss a sentinel
Segments ==
    {<<"x">>, <<NEXT_MESSAGE>>,
     <<CHOICES, "[c1]", END_CHOICES>>, <<CHOICES, "[]", END_CHOICES>>,
     <<CHOICES, "x", END_CHOICES>>, <<CHOICES, "[c1]">>, <<END_CHOICES>>,
     <<ACTS_DATA, "{u1}", END_ACTS>>, <<DAILY_UPDATES, "{u1}", END_DAILY>>,
     <<ACTS_DATA, "x", END_ACTS>>, <<DAILY_UPDATES, "x", END_DAILY>>,
     <<SWITCH_PROVIDER, "x", END_SWITCH>>}

RECURSIVE MarkedChunks(_)
\* the chunks of at most n segments
MarkedChunks(n) ==
    IF n = 0 THEN {<<>>}
    ELSE MarkedChunks(n - 1) \cup {c \o s : c \in MarkedChunks(n - 1), s \in Segments}

\* the chunk an adapter may yield before the chunk under study
EarlierChunks == {<<"x">>, <<CHOICES, "[c1]", END_CHOICES>>}

\* a turn of one user that has reached the adapter, which yields marked text
InitMarker ==
    /\ users = {[id |-> 1, email |-> "a@x", name |-> "a"]}
    /\ sessions = {[id |-> 1, user_id |-> 1]}
    /\ threads = {[id |-> 1, session_id |-> 1, title |-> 1]}
    /\ messages = <<[thread_id |-> 1, role |-> "user", content |-> Hi]>>
    /\ cache = <<>>
    /\ pc = "streaming"
    /\ req \in {r \in ResolveRequests : r.email = "a@x" /\ r.session_id = NONE
                                         /\ r.thread_id = NONE /\ ~r.is_new_chat}
    /\ cur = [NoCur EXCEPT !.user = 1, !.session = 1, !.thread = 1, !.strategy = "ollama", !.bot_id = InitialBotId("sys_key"),
                           !.new_session = TRUE, !.new_thread = TRUE]
    /\ http_status = 200
    /\ events = <<>>
    /\ gen = NoGen
    /\ \E c \in MarkedChunks(MaxSegments) \ {<<>>} :
         \E pre \in {<<>>} \cup {<<e>> : e \in EarlierChunks} :
             stream = [pending |-> pre \o <<c>>, raises |-> FALSE, called |-> TRUE,
                       upstream |-> "ok"]
    /\ trace = <<"commit_user", "adapter_call">>
    /\ n_turns = 1
    /\ InitImport
    /\ InitAdmin

NextMarker ==
    \/ emit_chunk
    \/ save_assistant_message(TRUE)
    \/ cache_assistant_message(TRUE)
SpecMarker == InitMarker /\ [][NextMarker]_vars


\* the chunk holds a span __CHOICES__<json>__END_CHOICES__: the first begin sentinel,
\* one JSON document, the first end sentinel
WellFormedChoices(chunk) ==
    /\ Contains(chunk, CHOICES) /\ Contains(chunk, END_CHOICES)
    /\ Index(chunk, END_CHOICES) = Index(chunk, CHOICES) + 2
    /\ chunk[Index(chunk, CHOICES) + 1] \in JsonDocs

BeforeChoices(chunk) == SubSeq(chunk, 1, Index(chunk, CHOICES) - 1)
EmbeddedDoc(chunk) == chunk[Index(chunk, CHOICES) + 1]
IsPrefix(s, t) == Len(s) <= Len(t) /\ s = SubSeq(t, 1, Len(s))
EmptyDocs == {"[]", "{}"}
OtherBegins == {ACTS_DATA, DAILY_UPDATES, SWITCH_PROVIDER}

\* the step sends the event of a chunk with a well-formed choices span
ChoicesChunkSent ==
    /\ pc = "streaming" /\ stream.pending # <<>>
    /\ WellFormedChoices(Head(stream.pending))
    /\ Len(events') = Len(events) + 1

PayloadMarkers ==
    {[begin |-> CHOICES, end |-> END_CHOICES, field |-> "choices"],
     [begin |-> ACTS_DATA, end |-> END_ACTS, field |-> "acts"],
     [begin |-> DAILY_UPDATES, end |-> END_DAILY, field |-> "dailyUpdates"]}

\* the chunk holds both sentinels of the marker and no JSON document between them
MalformedSpan(chunk, m) ==
    /\ Contains(chunk, m.begin) /\ Contains(chunk, m.end)
    /\ Index(chunk, m.begin) < Index(chunk, m.end)
    /\ ~JsonOk(Between(chunk, m.begin, m.end))

\* the step takes the next chunk from the adapter
ChunkTaken == pc = "streaming" /\ stream.pending # <<>> /\ stream' # stream

\* C23: for a chunk with both sentinels of a marker and invalid JSON between them
\* the parse failure is swallowed and the stream continues with the chunk's event,
\* which has no side payload of that marker and whose response text is cut at the
\* begin sentinel.
C23_AsStated ==
    [][ChunkTaken =>
         \A m \in PayloadMarkers :
            MalformedSpan(Head(stream.pending), m) =>
               /\ Len(events') = Len(events) + 1
               /\ LET c == Head(stream.pending)
                      e == events'[Len(events')]
                  IN  /\ e.kind = "data"
                      /\ e[m.field] = ABSENT
                      /\ IsPrefix(e.response, Upto(c, Index(c, m.begin) - 1))]_vars

\* a finished turn whose only chunk was text followed by an acts span without a
\* JSON document: the whole span was sent as response text and persisted
C23_Failing ==
    /\ pc = "done"
    /\ Len(events) = 1
    /\ events[1].response = <<"x", ACTS_DATA, "x", END_ACTS>>
    /\ events[1].acts = ABSENT
    /\ messages[Len(messages)] = [thread_id |-> cur.thread, role |-> "assistant",
                                   content |-> <<"x", ACTS_DATA, "x", END_ACTS>>]

SentinelFree(text) == \A i \in 1..Len(text) : text[i] \notin Sentinels

\* C6: no response text of an event and no persisted assistant message holds any
\* of the sentinels __CHOICES__, __ACTS_DATA__, __DAILY_UPDATES__,
\* __SWITCH_PROVIDER__, __NEXT_MESSAGE__ or an end sentinel.
C6_AsStated ==
    /\ \A i \in 1..Len(events) : SentinelFree(events[i].response)
    /\ \A i \in 1..Len(messages) : SentinelFree(messages[i].content)

\* the bot platform answered with two text responses: the separator chunk was sent
\* to the client as response text and persisted inside the assistant message
C6_Failing ==
    /\ pc = "done"
    /\ cur.strategy = "botpress"
    /\ stream.upstream = "ok"
    /\ \E i \in 1..Len(events) : Contains(events[i].response, NEXT_MESSAGE)
    /\ messages[Len(messages)].role = "assistant"
    /\ Contains(messages[Len(messages)].content, NEXT_MESSAGE)


-----------------------------------------------------------------------------
(* Claims about the import job *)

JOB_STATUS_KEY == "import_job_status"
ReturnsNow(r) == job[r].pc # "returned" /\ job'[r].pc = "returned"
LastIssued(calls) == calls[Len(calls)]

\* C9: every run first writes status running with zero counters, before the folder
\* is scanned, and ends having written exactly one more status, completed or
\* failed; what was written last is what the status store holds.
C9_AsStated ==
    /\ \A r \in Runners :
         /\ job[r].pc = "scan" => Issued(job[r].run) = <<Status(job[r].run, "running", 0, 0)>>
         /\ job[r].pc = "returned" =>
              /\ Len(Issued(job[r].run)) = 2
              /\ Issued(job[r].run)[1] = Status(job[r].run, "running", 0, 0)
              /\ Issued(job[r].run)[2].status \in {"completed", "failed"}
    /\ status_calls # <<>> =>
         /\ JOB_STATUS_KEY \in DOMAIN redis_kv
         /\ redis_kv[JOB_STATUS_KEY] = LastIssued(status_calls)

\* a run on an empty folder: it ended with status idle, and after its two calls
\* of _update_job_status the store holds no status
C9_Failing ==
    \E r \in Runners :
        /\ job[r].pc = "returned"
        /\ job[r].result = "idle"
        /\ Issued(job[r].run) = <<Status(job[r].run, "running", 0, 0),
                                  Status(job[r].run, "idle", 0, 0)>>
        /\ redis_kv = <<>>

C10_Step ==
    \A r \in Runners :
        ReturnsNow(r) =>
            LET s == LastIssued(status_calls')
            IN  /\ Len(status_calls') = Len(status_calls) + 1
                /\ s.last_run = job[r].run
                /\ s.status = job'[r].result
                /\ job[r].pc = "loop" =>
                     /\ s.status = "completed"
                     /\ s.records_failed = job[r].total_failed
                     /\ s.records_processed = job[r].total_processed
                /\ job[r].began => s.status = "completed"
                /\ s.status = "failed" =>
                     /\ job[r].pc = "scan"
                     /\ ~job[r].began
                     /\ job[r].n_files = 0

\* C10: a run that has entered the loop over the discovered files ends with status
\* completed, whatever number of its files failed, and never hands out another
\* status before; a run ends with status failed only from the scan, before the
\* first file; the status a run ends with is the last one it handed to
\* _update_job_status.
C10_TerminalStatus == [][C10_Step]_vars

\* a run of two files that both failed ended with status completed
C10_Witness ==
    \E r \in Runners :
        /\ job[r].pc = "returned"
        /\ job[r].result = "completed"
        /\ job[r].n_files = 2
        /\ job[r].total_failed = 2
        /\ job[r].total_processed = 0
        /\ LastIssued(Issued(job[r].run)) = Status(job[r].run, "completed", 0, 2)


\* the step is one iteration of the loop of runner r over its discovered files
FileStep(r) ==
    /\ job[r].pc = "loop"
    /\ job[r].excel_files # <<>>
    /\ job'[r] # job[r]

\* the file of that iteration, what is read from it, and what the run does with it
StepFile(r) == Head(job[r].excel_files)
StepSheet(r) == IF StepFile(r) \in imports_folder THEN StepFile(r).sheet ELSE BrokenFile
StepRows(r) == transform_dataframe_to_acts(parse_excel_file(StepSheet(r)).df)
StepInserts(r) ==
    /\ ~parse_excel_file(StepSheet(r)).raised
    /\ validate_data(parse_excel_file(StepSheet(r)).df)
    /\ StepRows(r) # <<>>
\* the store rejected the batch: an insert was due and the table did not change
StepRejected(r) == StepInserts(r) /\ acts_table' = acts_table
\* the processing of the file raised
StepRaised(r) == parse_excel_file(StepSheet(r)).raised \/ StepRejected(r)

C11_Step ==
    \A r \in Runners :
        /\ FileStep(r) =>
             /\ job'[r].pc = "loop"
             /\ job'[r].excel_files = Tail(job[r].excel_files)
             /\ job'[r].n_files = job[r].n_files
             /\ job'[r].total_processed >= job[r].total_processed
             /\ Len(acts_table') >= Len(acts_table)
             /\ SubSeq(acts_table', 1, Len(acts_table)) = acts_table
             /\ StepRaised(r) =>
                  /\ job'[r].total_failed = job[r].total_failed + 1
                  /\ job'[r].total_processed = job[r].total_processed
                  /\ acts_table' = acts_table
        /\ (job[r].pc = "loop" /\ job'[r].pc # "loop") =>
             /\ job[r].excel_files = <<>>
             /\ LastIssued(status_calls') =
                  Status(job[r].run, "completed", job[r].total_processed,
                         job[r].total_failed)

\* C11: an iteration whose file raises (unreadable or vanished file, rejected
\* insert) adds exactly one to the failure counter and leaves the loop running on
\* the files that remain; the run leaves the loop only when no file remains; rows
\* inserted before stay in the table and in records_processed.
C11_Containment == [][C11_Step]_vars

\* a finished run of two files: one is unreadable and still in the folder (its
\* move failed too), the other one's rows were inserted and counted
C11_Witness ==
    \E r \in Runners :
        /\ job[r].pc = "returned"
        /\ job[r].n_files = 2
        /\ job[r].total_failed = 1
        /\ job[r].total_processed = 2
        /\ Len(acts_table) = 2
        /\ \E f \in imports_folder : f.sheet = BrokenFile
        /\ LastIssued(Issued(job[r].run)) = Status(job[r].run, "completed", 2, 1)


\* what the step added to the archive
NewlyArchived == archived' \ archived

C12_Step ==
    \A r \in Runners :
        (FileStep(r) /\ StepInserts(r)) =>
            \/ /\ acts_table' = acts_table \o StepRows(r)
               /\ job'[r].total_processed = job[r].total_processed + Len(StepRows(r))
               /\ job'[r].total_failed = job[r].total_failed
               /\ NewlyArchived \subseteq {[name |-> StepFile(r).name, to |-> "processed"]}
            \/ /\ acts_table' = acts_table
               /\ job'[r].total_processed = job[r].total_processed
               /\ job'[r].total_failed = job[r].total_failed + 1
               /\ NewlyArchived \subseteq {[name |-> StepFile(r).name, to |-> "failed"]}
               /\ imports_folder' # imports_folder =>
                    NewlyArchived = {[name |-> StepFile(r).name, to |-> "failed"]}

StepImported(r) == StepInserts(r) /\ acts_table' = acts_table \o StepRows(r)
StepTarget(r) ==
    [name |-> StepFile(r).name, to |-> IF StepImported(r) THEN "processed" ELSE "failed"]
\* the step is the scan of runner r that found files
ScanStep(r) == job[r].pc = "scan" /\ job'[r].pc = "loop"

-----------------------------------------------------------------------------
(* Claims about the status record and the scheduler *)

NoRunInProgress == \A r \in Runners : job[r].pc \in {"idle", "returned"}

\* the final status of the last run, idle when no run has written one
FinalStatus ==
    IF status_calls = <<>> THEN IdleStatus ELSE LastIssued(status_calls)

\* C14: between the end of a run and the start of the next, get_job_status
\* returns exactly the final status that run wrote, and status idle when no run
\* has written one.
C14_AsStated ==
    [][(get_import_status /\ NoRunInProgress) => response'.returned = FinalStatus]_vars

\* a run has completed and written its final status, and the status asked for
\* afterwards is a coroutine object, answered with a 500
C14_Failing ==
    /\ NoRunInProgress
    /\ status_calls # <<>>
    /\ LastIssued(status_calls).status = "completed"
    /\ response.kind = "import_status"
    /\ response.seen = Len(status_calls)
    /\ response.returned = Coroutine
    /\ response.code = 500


\* C15: start_scheduler on a running scheduler changes nothing, so a running
\* scheduler holds exactly one import job, with the interval of the call that
\* started it; stop_scheduler on a scheduler that does not run changes nothing.
C15_Step ==
    /\ (response'.kind = "start_scheduler" /\ scheduler.running) =>
           scheduler' = scheduler
    /\ (~scheduler.running /\ scheduler'.running) =>
           /\ response'.kind = "start_scheduler"
           /\ scheduler'.jobs = {ExcelImportJob(response'.interval_minutes)}
    /\ (scheduler.running /\ scheduler'.running) => scheduler'.jobs = scheduler.jobs
    /\ (response'.kind = "stop_scheduler" /\ ~scheduler.running) =>
           scheduler' = scheduler
C15_Idempotent == [][C15_Step]_vars

\* start_scheduler was called with another interval on the running scheduler,
\* which still holds the one job of the call that started it
C15_Witness ==
    /\ scheduler.running
    /\ response.kind = "start_scheduler"
    /\ response.warned
    /\ \E m \in IntervalMinutes :
         /\ m # response.interval_minutes
         /\ scheduler.jobs = {ExcelImportJob(m)}


-----------------------------------------------------------------------------
(* Claims about the repositories *)

KeysOf(batch) == {NaturalKey(batch[i]) : i \in DOMAIN batch}
RowsWithKey(table, key) == {i \in DOMAIN table : NaturalKey(table[i]) = key}

\* C16: after bulk_upsert has run twice with batches of the same natural keys,
\* the table holds exactly one row for each of these keys, with the values of
\* the second batch.
C16_AsStated ==
    [][(/\ response.kind = "bulk_upsert"
        /\ response'.kind = "bulk_upsert"
        /\ response' # response
        /\ response'.prev = response.batch
        /\ KeysOf(response'.batch) = KeysOf(response.batch))
       => \A i \in DOMAIN response'.batch :
            LET hit == RowsWithKey(acts_table', NaturalKey(response'.batch[i]))
            IN  /\ Cardinality(hit) = 1
                /\ \A h \in hit : acts_table'[h] = response'.batch[i]]_vars

\* bulk_upsert ran twice on one natural key with two values: both calls raised
\* and the table holds no row of that key
C16_Failing ==
    /\ response.kind = "bulk_upsert"
    /\ response.raised
    /\ response.prev # <<>>
    /\ response.prev # response.batch
    /\ KeysOf(response.prev) = KeysOf(response.batch)
    /\ \A k \in KeysOf(response.batch) : RowsWithKey(acts_table, k) = {}


\* the records a sheet yields
RecordsOf(sheet) ==
    transform_dataframe_to_updates([sheet EXCEPT !.rows = dropna_all(sheet.rows)])

\* C17: importing the rows of a successful import a second time adds no row: the
\* monthly_updates table after two identical imports equals the table after one.
C17_AsStated ==
    [][(/\ response.kind = "import_excel_file"
        /\ response.success
        /\ \E db_ok \in BOOLEAN : import_excel_file(response.sheet, db_ok))
       => monthly_updates' = monthly_updates]_vars

\* one sheet was imported twice with success and the table holds its records
\* twice
C17_Failing ==
    /\ response.kind = "import_excel_file"
    /\ response.success
    /\ RecordsOf(response.sheet) # <<>>
    /\ monthly_updates = RecordsOf(response.sheet) \o RecordsOf(response.sheet)


\* a cell holds something; a date cell holds something that reads as a date
Present(cell) == ~isna(cell)
DateParses(cell) ==
    \/ cell.type = "Timestamp"
    \/ cell.type = "str" /\ Parses(cell.text)
\* the rows the claim says are kept
Complete(sheet) ==
    SelectSeq(sheet.rows,
              LAMBDA r : /\ sheet.columns
                         /\ \A f \in required_fields : Present(r[f])
                         /\ \A d \in date_columns : DateParses(r[d]))

\* C18: with the database reachable, an upload keeps exactly the rows that have
\* every required field and two dates that parse: of n rows with k others,
\* n - k are persisted, and the import succeeds when n - k > 0.
C18_AsStated ==
    [][(/\ response'.kind = "import_excel_file"
        /\ import_excel_file(response'.sheet, TRUE))
       => LET kept == Len(Complete(response'.sheet))
          IN  /\ Len(RecordsOf(response'.sheet)) = kept
              /\ Len(monthly_updates') = Len(monthly_updates) + kept
              /\ kept > 0 => response'.success /\ response'.records_processed = kept]_vars

\* a sheet with a complete row and a row whose date cell holds a number was
\* uploaded with the database reachable: both rows were kept, the import failed
\* and nothing was persisted
C18_Failing ==
    /\ response.kind = "import_excel_file"
    /\ response.db_ok
    /\ response.sheet.columns
    /\ Len(Complete(response.sheet)) = 1
    /\ Len(RecordsOf(response.sheet)) = 2
    /\ ~response.success
    /\ monthly_updates = <<>>


-----------------------------------------------------------------------------
(* Claims about the parsing of acts sheets *)

\* the value of the block that row k of the sheet lies in: that of the nearest
\* row at or above k with a value in column c, a blank when there is none
RECURSIVE BlockValue(_, _, _)
BlockValue(rows, c, k) ==
    IF k = 0 THEN NaN
    ELSE IF rows[k][c] # NaN THEN rows[k][c]
    ELSE BlockValue(rows, c, k - 1)

CountWhere(seq, Test(_)) == Cardinality({i \in DOMAIN seq : Test(seq[i])})

\* C19: a value in row i of a content column with blanks in rows i+1..j is
\* carried by every row i..j after parsing, so the import of a sheet stores, for
\* every state, as many rows as the sheet has under the blocks of that state.
C19_Step ==
    \A r \in Runners :
        (FileStep(r) /\ StepSheet(r).readable /\ StepSheet(r).columns) =>
            LET rows == StepSheet(r).rows
                parsed == parse_excel_file(StepSheet(r)).df.rows
                added == SubSeq(acts_table', Len(acts_table) + 1, Len(acts_table'))
            IN  /\ Len(parsed) = Len(rows)
                /\ \A c \in ContentColumns, i \in DOMAIN rows, j \in DOMAIN rows :
                     (/\ i <= j
                      /\ rows[i][c] # NaN
                      /\ \A k \in (i + 1)..j : rows[k][c] = NaN)
                     => \A k \in i..j : parsed[k][c] = rows[i][c]
                /\ \A s \in StateCells \ {NaN} :
                     CountWhere(added, LAMBDA a : a.state = s)
                       = Cardinality({k \in DOMAIN rows : BlockValue(rows, "state", k) = s})
-----------------------------------------------------------------------------
(* Claims about the acts query *)

\* the rows the claim names for state s: state equal to s, or all or central in
\* any case
NamedByState(table, s) ==
    {i \in DOMAIN table :
        /\ table[i].state # NaN
        /\ \/ table[i].state = s
           \/ CaseFold(table[i].state) \in {"all", "central"}}

\* what the claim says of a query whose only filter is the state
StateQueryAnswer(r, table) ==
    LET named == NamedByState(table, r.filters.state)
        left == IF Cardinality(named) < r.filters.skip THEN 0
                ELSE Cardinality(named) - r.filters.skip
    IN  /\ r.total = Cardinality(named)
        /\ \A i \in DOMAIN r.data : r.data[i] \in named
        /\ \A i, j \in DOMAIN r.data : i # j => r.data[i] # r.data[j]
        /\ Len(r.data) = IF left < r.filters.limit THEN left ELSE r.filters.limit

\* the step answers a query whose only filter is a state
StateQueryStep ==
    /\ response'.kind = "get_acts"
    /\ response' # response
    /\ response'.filters.state # NONE
    /\ response'.filters.industry = NONE

\* C20 as stated, for every state value, the empty string included
C20_AsStated == [][StateQueryStep => StateQueryAnswer(response', acts_table)]_vars

\* C20: a query whose only filter is a non-empty state s counts exactly the rows
\* whose state is s or, in any case, all or central, and returns at most limit
\* of them, skip of them left out.
C20_StateFilter ==
    [][(StateQueryStep /\ response'.filters.state # "")
       => StateQueryAnswer(response', acts_table)]_vars

\* a table with a KA row, an All row and a TN row was asked for state KA: the
\* answer counts and returns the KA row and the All row, not the TN row
C20_Witness ==
    /\ response.kind = "get_acts"
    /\ response.filters = [state |-> "KA", industry |-> NONE, skip |-> 0, limit |-> 100]
    /\ \E i \in DOMAIN acts_table : acts_table[i].state = "TN"
    /\ response.total = 2
    /\ {acts_table[response.data[i]].state : i \in DOMAIN response.data} = {"KA", "All"}

-----------------------------------------------------------------------------
(* Claims about the recent-history cache *)

History == CacheList(HistoryKey)

\* the entries of the list are the last Len(list) appended ones, in append order
MostRecentInOrder(list) ==
    \A i \in 1..Len(list) : list[i] = pushers.n - Len(list) + i

NoCallInFlight == \A c \in Callers : pushers.pc[c] = "idle"

-----------------------------------------------------------------------------
(* Claims about the user merge *)

\* the step is a call of update_user that found the user of current_email
UpdateStep ==
    /\ response' # response
    /\ response'.kind = "update_user"
    /\ UserByEmail(response'.current_email) # NoRow

\* the sessions the user of an email owns
SessionsOwnedBy(email) == {s.id : s \in {x \in sessions : x.user_id = UserByEmail(email)}}

\* the user a session refers to after the step carries the email
OwnerHasEmail(session, email) ==
    \E s \in sessions' : /\ s.id = session
                         /\ \E u \in users' : u.id = s.user_id /\ u.email = email

\* C22: after update_user(current_email, new_email) every session of the user of
\* current_email is owned by the user whose email is new_email, no session,
\* thread or message is deleted, no session refers to a user that no longer
\* exists; the old user is deleted when new_email belongs to a different user
\* and renamed in place otherwise; for every pair of emails.
C22_Step ==
    UpdateStep =>
        LET old == UserByEmail(response'.current_email)
            other == UserByEmail(response'.new_email)
        IN  /\ \A s \in SessionsOwnedBy(response'.current_email) :
                 OwnerHasEmail(s, response'.new_email)
            /\ {s.id : s \in sessions} \subseteq {s.id : s \in sessions'}
            /\ threads \subseteq threads'
            /\ messages' = messages
            /\ \A s \in sessions' : \E u \in users' : u.id = s.user_id
            /\ IF other # NoRow /\ other # old
               THEN \A u \in users' : u.id # old
               ELSE \E u \in users' : u.id = old /\ u.email = response'.new_email
C22_AsStated == [][C22_Step]_vars

\* the guest of a@x and the user of b@x both own a session and the merge of
\* a@x into b@x was answered with the error of the flush
C22_Failing ==
    /\ response.kind = "update_user"
    /\ response.current_email = "a@x"
    /\ response.new_email = "b@x"
    /\ response.status = 500
    /\ SessionsOwnedBy("a@x") # {}
    /\ SessionsOwnedBy("b@x") # {}

-----------------------------------------------------------------------------
(* Claims about the validation of import files *)

\* the positions of a call in a sequence of calls
Positions(calls, name) == {i \in 1..Len(calls) : calls[i] = name}

\* the file of the iteration is readable and fails validation
StepInvalid(r) ==
    /\ ~parse_excel_file(StepSheet(r)).raised
    /\ ~validate_data(parse_excel_file(StepSheet(r)).df)

\* C24 as stated: for every (readable) discovered file the validator's verdict is
\* obtained once and before any row is transformed or written, and a file that
\* fails validation causes no bulk_insert call and no other database operation.
C24_AsStated ==
    [][\A r \in Runners :
         (FileStep(r) /\ ~parse_excel_file(StepSheet(r)).raised) =>
            LET calls == LoopCalls(StepSheet(r))
            IN  /\ Cardinality(Positions(calls, "validate_data")) = 1
                /\ \A v \in Positions(calls, "validate_data") :
                     \A w \in Positions(calls, "transform_dataframe_to_acts")
                                \cup Positions(calls, "bulk_insert") : v < w
                /\ StepInvalid(r) =>
                     /\ Positions(calls, "bulk_insert") = {}
                     /\ acts_table' = acts_table]_vars

\* C24: for every readable discovered file the validator is called twice, by the
\* loop (its verdict is dropped and the rows are transformed whatever it was) and
\* by process_import; both calls precede bulk_insert, which is called at most
\* once and only on a file that validation accepted; a file that fails
\* validation (empty sheet, missing column, state and industry all blank) causes
\* no bulk_insert call and leaves the table as it was.
C24_Step ==
    \A r \in Runners :
        (FileStep(r) /\ ~parse_excel_file(StepSheet(r)).raised) =>
            LET calls == LoopCalls(StepSheet(r))
            IN  /\ Cardinality(Positions(calls, "validate_data")) = 2
                /\ \A v \in Positions(calls, "validate_data") :
                     \A w \in Positions(calls, "bulk_insert") : v < w
                /\ \E v \in Positions(calls, "validate_data") :
                     \E w \in Positions(calls, "transform_dataframe_to_acts") : w < v
                /\ Cardinality(Positions(calls, "bulk_insert")) <= 1
                /\ Positions(calls, "bulk_insert") # {}
                     => validate_data(parse_excel_file(StepSheet(r)).df)
                /\ acts_table' # acts_table => Positions(calls, "bulk_insert") # {}
                /\ StepInvalid(r) =>
                     /\ Positions(calls, "bulk_insert") = {}
                     /\ acts_table' = acts_table
                     /\ job'[r].total_failed = job[r].total_failed + 1
                     /\ job'[r].total_processed = job[r].total_processed
C24_ValidationGate == [][C24_Step]_vars

\* the only file there ever was has a column missing; the one run processed it,
\* counted it as failed and wrote nothing (the move to failed/ did not succeed)
C24_Witness ==
    /\ n_runs = 1
    /\ archived = {}
    /\ imports_folder = {[name |-> "a.xlsx", sheet |-> ShortSheet]}
    /\ \E r \in Runners : /\ job[r].began
                          /\ job[r].n_files = 1
                          /\ job[r].excel_files = <<>>
                          /\ job[r].total_failed = 1
    /\ acts_table = <<>>

-----------------------------------------------------------------------------
(* Claims about the expectation flags *)

\* the step is a turn of the adapter
AdapterTurn == response' # response /\ response'.kind = "stream_message"

\* C25: a flag that is set when a turn begins sends that turn's input through
\* its classifier before the upstream call and is cleared before the upstream
\* call, so that it affects exactly the next user input and never a later one.
C25_AsStated ==
    [][AdapterTurn =>
         \A f \in FlagsSet(redis_kv) :
            /\ response'.sent = Classify(f, response'.message)
            /\ f \notin response'.flags_at_call]_vars

\* the bot asked for the organization type, the user answered with the payload of
\* a choice, which was sent as it was, and the flag is still set for later input
C25_Failing ==
    /\ response.kind = "stream_message"
    /\ response.message = PayloadInput
    /\ response.sent = PayloadInput
    /\ response.classifier = NONE
    /\ response.triggers = {}
    /\ FlagsSet(redis_kv) = {"expecting_org_type"}

-----------------------------------------------------------------------------
(* Claims about tenants *)

InactiveConfigs == {w \in WidgetConfigs : ~w.active}

\* C26: a widget config whose active flag is false neither authenticates a chat
\* request by its secret key nor supplies the bot id, also when it is found
\* through the request's app_id (matched against tenant id or secret key).
C26_AsStated ==
    \A w \in InactiveConfigs :
        /\ req.x_api_key = w.secret_key => http_status = 401
        /\ cur.bot_id # w.bot_id

\* a request with the system key and the app_id of the inactive tenant was
\* answered by the bot platform under the bot id of that tenant
C26_Failing ==
    /\ pc = "done"
    /\ http_status = 200
    /\ req.x_api_key = "sys_key"
    /\ req.app_id = "t2"
    /\ cur.strategy = "botpress"
    /\ cur.bot_id = "bot2"
    /\ stream.called

-----------------------------------------------------------------------------
(* Claims about runs of the import job that meet *)

\* the run of the runner has written running and not yet its final status
InRun(r) == job[r].pc \in {"scan", "loop"}

\* C27: while one run_import_job is between writing running and writing its
\* final status no other invocation, manual or scheduled, scans or processes
\* files, so no discovered file is handled by two runs.
C27_AsStated ==
    \A r1, r2 \in Runners :
        (InRun(r1) /\ InRun(r2)) =>
            /\ r1 = r2
            /\ \A i \in DOMAIN job[r1].excel_files, j \in DOMAIN job[r2].excel_files :
                 job[r1].excel_files[i] # job[r2].excel_files[j]

\* the scheduler's run and a manual run are both in their loop with the same
\* file of the folder next
C27_Failing ==
    /\ job["tick"].pc = "loop"
    /\ job["manual"].pc = "loop"
    /\ job["tick"].excel_files # <<>>
    /\ job["manual"].excel_files # <<>>
    /\ Head(job["tick"].excel_files) = Head(job["manual"].excel_files)
    /\ Head(job["tick"].excel_files) \in imports_folder

\* the names of the files that were ever in the folder
FileNamesSeen == {f.name : f \in imports_folder} \cup {a.name : a \in archived}

\* the most rows a file of the model holds: no sheet has more than GoodSheet
MostRows == Len(GoodSheet.rows)

\* C28: the rows of one source file are inserted into acts at most once, also
\* when the archive move fails after its rows were inserted: the table never
\* holds more rows than the files that ever were in the folder hold together.
C28_AsStated == Len(acts_table) <= Cardinality(FileNamesSeen) * MostRows

\* one file only was ever dropped; the first run inserted its rows and could not
\* move it, the second run found it again and inserted the rows a second time
C28_Failing ==
    /\ n_runs = 2
    /\ FileNamesSeen = {"a.xlsx"}
    /\ \A r \in Runners : job[r].pc = "returned" /\ job[r].result = "completed"
    /\ LET rows == transform_dataframe_to_acts(parse_excel_file(GoodSheet).df)
       IN  acts_table = rows \o rows

-----------------------------------------------------------------------------
(* Claims about the side payloads of events *)

\* the chunk holds the span of the marker: begin sentinel, then end sentinel
HasSpan(chunk, m) ==
    /\ Contains(chunk, m.begin) /\ Contains(chunk, m.end)
    /\ Index(chunk, m.begin) < Index(chunk, m.end)

\* C29: an emitted event carries choices, acts or dailyUpdates only if the chunk
\* that produced it held the span of that marker; a payload of an earlier chunk
\* is not repeated on later events.
C29_AsStated ==
    [][ChunkTaken =>
         \A m \in PayloadMarkers :
            events'[Len(events')][m.field] # ABSENT => HasSpan(Head(stream.pending), m)]_vars

\* the bot platform's reply had choices, one of them the AI assistant: the event of
\* the choices chunk and the event of the switch chunk after it both carry the
\* choices
C29_Failing ==
    /\ pc = "done"
    /\ cur.strategy = "botpress"
    /\ Len(events) >= 2
    /\ events[Len(events) - 1].choices = "list(c1)"
    /\ events[Len(events)].choices = "list(c1)"
    /\ events[Len(events)].kind = "data"

-----------------------------------------------------------------------------
(* Claims about the data families *)

\* C30: the Acts import job parses, counts and archives Acts files only; a file
\* whose name holds 'monthly updates' is never archived by the Acts job and stays
\* in the folder for the monthly-updates import.
C30_AsStated ==
    /\ \A a \in archived : ~IsMonthlyUpdatesName(a.name)
    /\ \A r \in Runners :
         \A i \in DOMAIN job[r].excel_files :
            ~IsMonthlyUpdatesName(job[r].excel_files[i].name)

\* the monthly-updates file was dropped, the Acts job counted it as failed and
\* moved it to failed/, and the scan of the monthly-updates import finds nothing
C30_Failing ==
    /\ [name |-> MonthlyFileName, to |-> "failed"] \in archived
    /\ job["manual"].pc = "returned"
    /\ job["manual"].total_failed >= 1
    /\ response = [kind |-> "scan_monthly_updates_files", files |-> {}]

=============================================================================
